---- MODULE Spec2Model ----
(***************************************************************************)
(* WhatsApp storefront bot: the POST /webhook turn handler (src/main.py),  *)
(* the conversation store it uses (src/chat_db.py), the language-model     *)
(* gateway (src/gemini.py) and the catalog lookup (src/catalog_db.py).     *)
(*                                                                         *)
(* Texts are sequences of one-character strings.  Arabic letters are       *)
(* written by their names ("alef", "lam", ...), each standing for one      *)
(* character.                                                              *)
(***************************************************************************)
EXTENDS Integers, Sequences, FiniteSets, TLC

VARIABLES convs, messages, outbox, pc, loc, obs, delivered, mode, probe, unanswered

vars == <<convs, messages, outbox, pc, loc, obs, delivered, mode, probe, unanswered>>

-----------------------------------------------------------------------------
(* Text primitives (Python str methods and the re patterns used).          *)

\* Python None where a text is expected: a one-element sequence that is not a text.
NoneVal == <<"<None>">>

\* x or d
OrElse(x, d) == IF x = NoneVal \/ x = <<>> THEN d ELSE x

IsSpace(c) == c = " "

\* str.isdigit() accepts decimal digits and digit-like characters such as the
\* superscript two; int() and the pattern \d accept decimal digits only.
DecimalChars == {"0", "1", "2", "3", "4", "5", "6", "7", "8", "9"}

IsDecimalChar(c) == c \in DecimalChars

IsDigitChar(c) == c \in DecimalChars \cup {"sup2"}

DigitVal(c) ==
    CASE c = "0" -> 0 [] c = "1" -> 1 [] c = "2" -> 2 [] c = "3" -> 3
      [] c = "4" -> 4 [] c = "5" -> 5 [] c = "6" -> 6 [] c = "7" -> 7
      [] c = "8" -> 8 [] c = "9" -> 9 [] OTHER -> 0

\* \w of the re module: letters, digits and underscore.
IsWordChar(c) == ~(c \in {" ", "#", "?", "-", ")", "["})

LowerChar(c) == IF c = "M" THEN "m" ELSE c

Lower(t) == [i \in 1..Len(t) |-> LowerChar(t[i])]

RECURSIVE LStrip(_)
LStrip(t) == IF t # <<>> /\ IsSpace(Head(t)) THEN LStrip(Tail(t)) ELSE t

RECURSIVE RStrip(_)
RStrip(t) ==
    IF t # <<>> /\ IsSpace(t[Len(t)]) THEN RStrip(SubSeq(t, 1, Len(t) - 1)) ELSE t

\* str.strip()
Strip(t) == RStrip(LStrip(t))

\* w in t
Contains(t, w) ==
    \E i \in 1..(Len(t) - Len(w) + 1) : SubSeq(t, i, i + Len(w) - 1) = w

\* str.isdigit()
IsDigit(t) == t # <<>> /\ \A i \in 1..Len(t) : IsDigitChar(t[i])

IsDecimal(t) == t # <<>> /\ \A i \in 1..Len(t) : IsDecimalChar(t[i])

\* int(t) of a decimal text
RECURSIVE ToInt(_)
ToInt(t) ==
    IF t = <<>> THEN 0
    ELSE 10 * ToInt(SubSeq(t, 1, Len(t) - 1)) + DigitVal(t[Len(t)])

\* Positions where one character of the class `ok` stands between two word
\* boundaries: re.search(r"\b(c)\b", t).
StandalonePositions(t, ok) ==
    {i \in 1..Len(t) :
        /\ t[i] \in ok
        /\ (i = 1 \/ ~IsWordChar(t[i - 1]))
        /\ (i = Len(t) \/ ~IsWordChar(t[i + 1]))}

MinOf(S) == CHOOSE x \in S : \A y \in S : x <= y

-----------------------------------------------------------------------------
(* The marker words of src/main.py.                                        *)

\* the words, letter by letter
W ==
    [ alawwal |-> <<"alef", "lam", "hamza", "waw", "lam">>,
      awwal |-> <<"alef", "waw", "lam">>,
      awwal_wahed |-> <<"alef", "waw", "lam", " ", "waw", "alef", "hah", "dal">>,
      alawwal_plain |-> <<"alef", "lam", "alef", "waw", "lam">>,
      altani |-> <<"alef", "lam", "teh", "alef", "noon", "yeh">>,
      althani |-> <<"alef", "lam", "theh", "alef", "noon", "yeh">>,
      tani |-> <<"teh", "alef", "noon", "yeh">>,
      althaleth |-> <<"alef", "lam", "theh", "alef", "lam", "theh">>,
      talet |-> <<"teh", "alef", "lam", "teh">>,
      altalet |-> <<"alef", "lam", "teh", "alef", "lam", "teh">>,
      alakhir |-> <<"alef", "lam", "hamza", "kha", "yeh", "reh">>,
      alakhir_plain |-> <<"alef", "lam", "alef", "kha", "yeh", "reh">>,
      fi_alnos |-> <<"feh", "yeh", " ", "alef", "lam", "noon", "sad">>,
      alnos |-> <<"alef", "lam", "noon", "sad">>,
      middle |-> <<"m", "i", "d", "d", "l", "e">>,
      raqam |-> <<"reh", "qaf", "meem">>,
      hash |-> <<"#">> ]

\* mapping of _selection_index, in insertion order; v = 0 stands for max_n.
SelectionMapping ==
    << [k |-> W.alawwal, v |-> 1], [k |-> W.awwal, v |-> 1],
       [k |-> W.awwal_wahed, v |-> 1], [k |-> W.altani, v |-> 2],
       [k |-> W.althani, v |-> 2], [k |-> W.tani, v |-> 2],
       [k |-> W.althaleth, v |-> 3], [k |-> W.talet, v |-> 3],
       [k |-> W.altalet, v |-> 3], [k |-> W.alakhir, v |-> 0],
       [k |-> W.alakhir_plain, v |-> 0] >>

MappingValue(i, max_n) ==
    IF SelectionMapping[i].v = 0 THEN max_n ELSE SelectionMapping[i].v

\* Results of _selection_index: a 1-based index, NoIndex for None, and
\* IndexRaises when int() raises ValueError on a digit-like character.
NoIndex == 0
IndexRaises == -1

\* _selection_index(user_text, max_n)
SelectionIndex(user_text, max_n) ==
    LET t == Lower(Strip(OrElse(user_text, <<>>)))
        hits == {i \in 1..Len(SelectionMapping) :
                    /\ Contains(t, SelectionMapping[i].k)
                    /\ 1 <= MappingValue(i, max_n)
                    /\ MappingValue(i, max_n) <= max_n}
        pos == StandalonePositions(t, DecimalChars)
    IN  IF t = <<>> \/ max_n <= 0 THEN NoIndex
        ELSE IF IsDigit(t) /\ ~IsDecimal(t) THEN IndexRaises
        ELSE IF IsDigit(t) /\ 1 <= ToInt(t) /\ ToInt(t) <= max_n THEN ToInt(t)
        ELSE IF hits # {} THEN MappingValue(MinOf(hits), max_n)
        ELSE IF Contains(t, W.fi_alnos) \/ Contains(t, W.alnos) \/ Contains(t, W.middle)
             THEN (IF max_n = 2 THEN 1 ELSE IF max_n >= 3 THEN 2 ELSE NoIndex)
        ELSE IF pos # {} /\ 1 <= DigitVal(t[MinOf(pos)]) /\ DigitVal(t[MinOf(pos)]) <= max_n
             THEN DigitVal(t[MinOf(pos)])
        ELSE NoIndex

SelectionTerms ==
    { W.alawwal, W.alawwal_plain, W.awwal, W.altani, W.althani, W.tani,
      W.althaleth, W.altalet, W.talet, W.alakhir, W.alakhir_plain, W.raqam, W.hash }

ShortReplyLen == 20

\* variant: the `len(t) <= 20` test is missing
LooksLikeSelectionReplyNoShort(user_text) ==
    LET t == Strip(OrElse(user_text, <<>>))
        tl == Lower(t)
    IN  IF t = <<>> THEN FALSE
        ELSE \/ IsDigit(tl)
             \/ StandalonePositions(tl, DecimalChars \ {"0"}) # {}
             \/ \E s \in SelectionTerms : Contains(tl, s)

\* _looks_like_selection_reply(user_text)
LooksLikeSelectionReply(user_text) ==
    LET t == Strip(OrElse(user_text, <<>>))
        tl == Lower(t)
    IN  IF t = <<>> THEN FALSE
        ELSE \/ Len(t) <= ShortReplyLen
             \/ IsDigit(tl)
             \/ StandalonePositions(tl, DecimalChars \ {"0"}) # {}
             \/ \E s \in SelectionTerms : Contains(tl, s)

-----------------------------------------------------------------------------
(* Numbers as text.                                                        *)

DigitChar(d) ==
    CASE d = 0 -> "0" [] d = 1 -> "1" [] d = 2 -> "2" [] d = 3 -> "3"
      [] d = 4 -> "4" [] d = 5 -> "5" [] d = 6 -> "6" [] d = 7 -> "7"
      [] d = 8 -> "8" [] OTHER -> "9"

\* str(n) / f"{n}" of a non-negative integer
RECURSIVE IntToText(_)
IntToText(n) ==
    IF n < 10 THEN <<DigitChar(n)>>
    ELSE IntToText(n \div 10) \o <<DigitChar(n % 10)>>

-----------------------------------------------------------------------------
(* The conversation state blob: a function from the keys present to their  *)
(* values (a JSON object).                                                 *)

K_ids == "last_presented_candidate_ids"
K_cands == "last_presented_candidates"
K_selected == "selected_product_id"

EmptyState == [k \in {} |-> 0]

Has(s, k) == k \in DOMAIN s

\* dict.pop(k, None)
Pop(s, k) == [x \in (DOMAIN s) \ {k} |-> s[x]]

\* s[k] = v
Put(s, k, v) == [x \in (DOMAIN s) \cup {k} |-> IF x = k THEN v ELSE s[x]]

\* state.get(k) or []
GetList(s, k) == IF Has(s, k) THEN s[k] ELSE <<>>

-----------------------------------------------------------------------------
(* Conversation store (src/chat_db.py).  convs[i] is the row with id i,    *)
(* stale = TRUE stands for last_activity_at < now() - ttl.  messages is    *)
(* chat_messages as the handler can read it back: the set of distinct      *)
(* (conversation, direction, provider id) of its rows.  obs[p].rows holds, *)
(* in full and in order, the rows handler p inserted in its current turn,  *)
(* outbox[p] the messages it sent in it.                                   *)

OpenConvsOf(cs, user) ==
    {i \in 1..Len(cs) : cs[i].user_number = user /\ cs[i].status = "open"}

\* variant: the statement that refreshes last_activity_at is missing
TouchNoRefresh(cs, id) == cs

\* UPDATE ... SET last_activity_at = now()
Touch(cs, id) ==
    IF id \in 1..Len(cs) THEN [cs EXCEPT ![id].stale = FALSE] ELSE cs

\* variant: the id is looked up as delivered, without the blank test
WaMessageIdExistsAsDelivered(wa_message_id, msgs) ==
    \E m \in msgs : m.wa_message_id = wa_message_id

\* wa_message_id_exists(wa_message_id)
WaMessageIdExists(wa_message_id, msgs) ==
    LET w == Strip(OrElse(wa_message_id, <<>>))
    IN  IF w = <<>> THEN FALSE
        ELSE \E m \in msgs : m.wa_message_id = w

\* append_message: the text actually stored, <<>> when it raises ValueError
StoredText(text) == Strip(OrElse(text, <<>>))

\* the row append_message inserts
MessageRow(conversation_id, role, direction, text, wa_message_id) ==
    [conversation_id |-> conversation_id, role |-> role, direction |-> direction,
     text |-> StoredText(text), wa_message_id |-> wa_message_id]

\* INSERT INTO chat_messages
Add(msgs, row) == msgs \cup {row}

\* the columns of a chat_messages row the handler reads back (the text goes
\* only into prompts)
Stored(row) ==
    [conversation_id |-> row.conversation_id, direction |-> row.direction,
     wa_message_id |-> row.wa_message_id]

\* get_conversation_state(conversation_id)
GetConversationState(cs, id) ==
    IF id \in 1..Len(cs) THEN cs[id].state ELSE EmptyState

\* variant: the UPDATE merges the new blob into the stored one (state || %s)
SetConversationStateMerging(cs, id, state) ==
    IF id \in 1..Len(cs)
    THEN [cs EXCEPT ![id].state =
                [k \in (DOMAIN @) \cup (DOMAIN state) |->
                    IF k \in DOMAIN state THEN state[k] ELSE @[k]],
                    ![id].stale = FALSE]
    ELSE cs

\* set_conversation_state(conversation_id, state)
SetConversationState(cs, id, state) ==
    IF id \in 1..Len(cs) THEN [cs EXCEPT ![id].state = state, ![id].stale = FALSE]
    ELSE cs

NewConversation(user) ==
    [user_number |-> user, status |-> "open", state |-> EmptyState, stale |-> FALSE]

-----------------------------------------------------------------------------
(* Catalog (src/catalog_db.py) over a fixed products table.                *)

\* consumer_price IS NULL
NoPrice == -1

\* texts of the catalog and of the messages
T == [ red |-> <<"r", "e", "d">>, sh |-> <<"s", "h">>, x |-> <<"x">>, q |-> <<"q">>, zz |-> <<"z", "z">> ]

Product(id, deleted, ar, en, slug, price) ==
    [id |-> id, deleted |-> deleted, name_ar |-> ar, name_en |-> en, slug |-> slug,
     sku |-> T.x, product_code |-> T.x, consumer_price |-> price]

Products ==
    << Product(10, FALSE, NoneVal, T.red, T.red, 5),
       Product(20, FALSE, T.red, T.red, T.sh, 7),
       Product(30, FALSE, NoneVal, T.sh, T.q, NoPrice),
       Product(40, FALSE, T.sh, NoneVal, T.q, 9),
       Product(50, TRUE, NoneVal, T.red, T.red, 5) >>

SearchFields(p) == <<p.name_ar, p.name_en, p.slug, p.sku, p.product_code>>

\* field ILIKE %term%
ILike(field, term) == field # NoneVal /\ Contains(Lower(field), Lower(term))

\* COALESCE(name->>'ar', name->>'en') and the columns of a candidate row
CandidateRow(p, score) ==
    [id |-> p.id,
     display_name |-> IF p.name_ar # NoneVal THEN p.name_ar ELSE p.name_en,
     slug |-> p.slug, consumer_price |-> p.consumer_price, match_score |-> score]

\* match_score IS NULL: a sum with a NULL operand
NullScore == -1

\* ORDER BY match_score DESC, id DESC (in descending order NULL sorts first)
RowBefore(a, b) ==
    \/ a.match_score = NullScore /\ b.match_score # NullScore
    \/ /\ a.match_score # NullScore /\ b.match_score # NullScore
       /\ a.match_score > b.match_score
    \/ (a.match_score = b.match_score /\ a.id > b.id)

RECURSIVE OrderRows(_)
OrderRows(rows) ==
    IF rows = {} THEN <<>>
    ELSE LET first == CHOOSE r \in rows : \A o \in rows \ {r} : RowBefore(r, o)
         IN  <<first>> \o OrderRows(rows \ {first})

\* LIMIT n
Limit(rows, n) == SubSeq(rows, 1, IF Len(rows) < n THEN Len(rows) ELSE n)


MaxTerms == 12

\* the cleaned terms of search_products_by_terms
CleanedTerms(terms) ==
    LET stripped == [i \in 1..Len(terms) |-> Strip(OrElse(terms[i], <<>>))]
        kept == SelectSeq(stripped, LAMBDA t : Len(t) >= 2)
    IN  Limit(kept, MaxTerms)

\* params: for each term and each column the pattern is appended twice, once
\* for the WHERE part and once for the score part
Params(terms) ==
    [m \in 1..(10 * Len(terms)) |-> terms[((m - 1) \div 10) + 1]]

\* the k-th placeholder of the score expression and of the WHERE expression
\* is for column ((k - 1) % 5) + 1; the placeholders are bound in the order
\* of the statement's text: the score's, then the WHERE's, then the limit
ColumnOf(k) == ((k - 1) % 5) + 1

\* ({score}) AS match_score: the sum of (col ILIKE %s)::int over the score
\* placeholders, NULL when a column is NULL
MatchScore(p, terms) ==
    IF \E j \in 1..5 : SearchFields(p)[j] = NoneVal THEN NullScore
    ELSE Cardinality({k \in 1..(5 * Len(terms)) :
                        ILike(SearchFields(p)[ColumnOf(k)], Params(terms)[k])})

\* AND ({where}): some (col ILIKE %s) of the WHERE expression is true
WhereMatches(p, terms) ==
    \E k \in 1..(5 * Len(terms)) :
        ILike(SearchFields(p)[ColumnOf(k)], Params(terms)[5 * Len(terms) + k])

\* search_products_by_terms(terms, limit)
SearchProductsByTerms(terms, limit) ==
    LET cleaned == CleanedTerms(terms)
        rows == {CandidateRow(Products[i], MatchScore(Products[i], cleaned)) :
                    i \in {j \in 1..Len(Products) :
                            /\ ~Products[j].deleted
                            /\ WhereMatches(Products[j], cleaned)}}
    IN  IF cleaned = <<>> THEN <<>> ELSE Limit(OrderRows(rows), limit)

\* search_products(user_text, limit)
SearchProducts(user_text, limit) ==
    LET q == Strip(OrElse(user_text, <<>>))
        byId == {i \in 1..Len(Products) :
                    IsDecimal(q) /\ Products[i].id = ToInt(q) /\ ~Products[i].deleted}
        like == {i \in 1..Len(Products) :
                    /\ ~Products[i].deleted
                    /\ \E j \in 1..5 : ILike(SearchFields(Products[i])[j], q)}
    IN  IF q = <<>> THEN <<>>
        ELSE IF byId # {} THEN <<CandidateRow(Products[CHOOSE i \in byId : TRUE], 0)>>
        ELSE Limit(OrderRows({CandidateRow(Products[i], 0) : i \in like}), limit)

\* get_product_context(product_id): TRUE when a context is returned
HasProductContext(product_id) ==
    \E i \in 1..Len(Products) : Products[i].id = product_id /\ ~Products[i].deleted

-----------------------------------------------------------------------------
(* Language-model gateway (src/gemini.py).  A JSON value is a tagged       *)
(* record; a raw response is its form and, when it holds one, the JSON     *)
(* object in it.                                                           *)

JNull == [t |-> "null", v |-> 0]
JInt(n) == [t |-> "int", v |-> n]
JStr(x) == [t |-> "str", v |-> x]
JList(l) == [t |-> "list", v |-> l]

\* bool(v)
Truthy(v) ==
    CASE v.t = "null" -> FALSE
      [] v.t = "int" -> v.v # 0
      [] v.t = "str" -> v.v # <<>>
      [] v.t = "list" -> v.v # <<>>
      [] OTHER -> TRUE

\* int(v) succeeds
IntOk(v) == v.t = "int" \/ (v.t = "str" /\ IsDecimal(Strip(v.v)))

\* int(v)
IntOf(v) == IF v.t = "int" THEN v.v ELSE ToInt(Strip(v.v))

\* str(v)
StrOf(v) ==
    CASE v.t = "str" -> v.v
      [] v.t = "int" -> IntToText(v.v)
      [] OTHER -> <<"N", "o", "n", "e">>

Raw(form, obj) == [form |-> form, obj |-> obj]

\* _extract_json + json.loads + the isinstance(data, dict) test: the object a
\* structured call works with, {} for empty, prose, array or broken output.
LoadObject(raw) ==
    IF raw.form \in {"object", "fenced", "embedded"} THEN raw.obj ELSE EmptyState

\* dict.get(k)
JGet(obj, k) == IF Has(obj, k) THEN obj[k] ELSE JNull

NoHint == -1

M_retry == "Please retry in"

DigitsFrom(msg, i) ==
    LET stop == {j \in i..(Len(msg) + 1) : j = Len(msg) + 1 \/ ~IsDecimalChar(msg[j])}
    IN  SubSeq(msg, i, MinOf(stop) - 1)

\* thousandths of the fraction digits f (float() of "0.f", cut after three places)
\* a non-zero fraction stays positive
FracMilli(f) ==
    LET d(i) == IF i <= Len(f) THEN DigitVal(f[i]) ELSE 0
        m == 100 * d(1) + 10 * d(2) + d(3)
    IN  IF m = 0 /\ \E i \in 1..Len(f) : DigitVal(f[i]) # 0 THEN 1 ELSE m

\* _retry_after_from_error_message(msg): the hint in thousandths of a second,
\* NoHint for None.  Pattern: Please retry in\s+([0-9]+(?:\.[0-9]+)?)s
RetryAfterFromErrorMessage(msg) ==
    LET starts == {i \in 1..Len(msg) : msg[i] = M_retry}
        Match(i) ==
            LET sp == {j \in (i + 1)..(Len(msg) + 1) : j = Len(msg) + 1 \/ ~IsSpace(msg[j])}
                a == MinOf(sp)
                whole == DigitsFrom(msg, a)
                b == a + Len(whole)
                frac == IF b + 1 <= Len(msg) /\ msg[b] = "." THEN DigitsFrom(msg, b + 1)
                        ELSE <<>>
                c == IF frac # <<>> /\ b + Len(frac) + 1 <= Len(msg)
                        /\ msg[b + Len(frac) + 1] = "s"
                     THEN b + Len(frac) + 1 ELSE b
                useFrac == c # b
            IN  IF a > i + 1 /\ whole # <<>> /\ c <= Len(msg) /\ msg[c] = "s"
                THEN ToInt(whole) * 1000 + (IF useFrac THEN FracMilli(frac) ELSE 0)
                ELSE NoHint
        hits == {i \in starts : Match(i) # NoHint}
    IN  IF hits = {} THEN NoHint ELSE Match(MinOf(hits))

\* int(retry_s) of a float held in thousandths
IntPart(milli) == milli \div 1000

-----------------------------------------------------------------------------
(* Reply texts of src/main.py.  A fixed sentence is one token.             *)

NonTextReply == <<"send-text-please">>
RePrompt == <<"which-one-do-you-mean">>
ApologyNoNumber == <<"service-busy-try-later">>
ApologyWait(n) == <<"service-busy-try-in", " ">> \o IntToText(n) \o <<" ", "seconds">>
EmptyPlaceholder == <<"[", "e", "m", "p", "t", "y", "]">>
NonTextPlaceholder(msg_type) == <<"[non-text message type=", msg_type, "]">>
DefaultName == <<"product">>

\* variant: the wait is the hint's whole seconds, without the added second
RateLimitMessageNoMargin(retry_s) ==
    IF retry_s # NoHint /\ retry_s > 0 THEN ApologyWait(IntPart(retry_s))
    ELSE ApologyNoNumber

\* msg of the except GeminiRateLimitError branch
RateLimitMessage(retry_s) ==
    IF retry_s # NoHint /\ retry_s > 0 THEN ApologyWait(IntPart(retry_s) + 1)
    ELSE ApologyNoNumber

\* one line of the fallback list: f"{i}) {name} - {price}" or f"{i}) {name}"
ListLine(i, c) ==
    LET name == IF OrElse(c.display_name, <<>>) # <<>> THEN c.display_name
                ELSE IF OrElse(c.slug, <<>>) # <<>> THEN c.slug ELSE DefaultName
    IN  <<"\n">> \o IntToText(i) \o <<")", " ">> \o name
        \o (IF c.consumer_price # NoPrice
            THEN <<" ", "-", " ">> \o IntToText(c.consumer_price) \o <<"EGP">>
            ELSE <<>>)

RECURSIVE ListLines(_, _)
ListLines(top, i) ==
    IF i > Len(top) THEN <<>> ELSE ListLine(i, top[i]) \o ListLines(top, i + 1)

\* the fallback reply built from top3
FallbackReply(top) == <<"options-header">> \o ListLines(top, 1) \o <<"\n", "which-one">>

\* an entry of last_presented_candidates
Summary(id, row) == [id |-> id, display_name |-> row.display_name]

-----------------------------------------------------------------------------
(* The selection and rerank computations of webhook().                     *)

PresentedCap == 10
RerankCap == 5
TopN == 3

\* presented_list: from last_presented_candidates, else from the ids
PresentedList(state) ==
    LET last_presented == GetList(state, K_cands)
        last_ids == GetList(state, K_ids)
    IN  IF last_presented # <<>> THEN last_presented
        ELSE [i \in 1..Len(Limit(last_ids, PresentedCap)) |->
                [id |-> last_ids[i], display_name |-> NoneVal]]

\* presented_candidates=presented_list[:10]
PassedToSelection(presented_list) == Limit(presented_list, PresentedCap)

\* variant: the 1-based index used as a 0-based one
PresentedAtZeroBased(presented_list, idx) ==
    presented_list[IF idx < Len(presented_list) THEN idx + 1 ELSE 1].id

\* presented_list[idx - 1]["id"]
PresentedAt(presented_list, idx) == presented_list[idx].id

\* selected_id after choose_from_presented returned sel_json (0 for None);
\* int() raising is caught by the except Exception of the selection step.
ChosenId(sel_json) ==
    LET v == JGet(sel_json, "selected_id")
    IN  IF Truthy(v) /\ IntOk(v) THEN IntOf(v) ELSE 0

CandIds(product_candidates) ==
    {product_candidates[i].id : i \in 1..Len(product_candidates)}

\* id_to_row.get(pid) or {}
RowOf(product_candidates, id) ==
    IF id \in CandIds(product_candidates)
    THEN product_candidates[CHOOSE i \in 1..Len(product_candidates) :
                               product_candidates[i].id = id]
    ELSE [display_name |-> NoneVal]

\* variant: the claimed id is kept without the `ip in cand_ids` test
KeepPresentedUnchecked(pid, cand_ids) == IntOk(pid)

\* the validation loop: ids the model claims, cut to 5, kept when int() works
\* and the id is a candidate's
KeepPresented(pid, cand_ids) == IntOk(pid) /\ IntOf(pid) \in cand_ids

\* presented_ids: rr.get("presented_candidate_ids") when it is a list
ClaimedIds(rr) ==
    LET claimed == JGet(rr, "presented_candidate_ids")
    IN  IF claimed.t = "list" THEN claimed.v ELSE <<>>

\* variant: every claimed id is validated, without the [:5]
SafePresentedUncut(rr, product_candidates) ==
    LET kept == SelectSeq(ClaimedIds(rr),
                          LAMBDA pid : KeepPresented(pid, CandIds(product_candidates)))
    IN  [i \in 1..Len(kept) |-> IntOf(kept[i])]

SafePresented(rr, product_candidates) ==
    LET first == Limit(ClaimedIds(rr), RerankCap)
        kept == SelectSeq(first, LAMBDA pid : KeepPresented(pid, CandIds(product_candidates)))
    IN  [i \in 1..Len(kept) |-> IntOf(kept[i])]

\* (rr.get("reply_text") or "").strip(); raises AttributeError on a truthy non-string
ReplyTextRaises(rr) ==
    LET v == JGet(rr, "reply_text") IN Truthy(v) /\ v.t # "str"

ReplyText(rr) ==
    LET v == JGet(rr, "reply_text") IN IF Truthy(v) THEN Strip(v.v) ELSE <<>>

\* variant: the presented keys are written into a fresh blob
WithPresentedFresh(state, ids, product_candidates) ==
    Put(Put(EmptyState, K_ids, ids), K_cands,
        [i \in 1..Len(ids) |-> Summary(ids[i], RowOf(product_candidates, ids[i]))])

\* state after presenting the ids `ids` of rows of product_candidates
WithPresented(state, ids, product_candidates) ==
    Put(Put(state, K_ids, ids), K_cands,
        [i \in 1..Len(ids) |-> Summary(ids[i], RowOf(product_candidates, ids[i]))])

\* keywords handed to the search: parsed.get("keywords") when it is a list
Keywords(parsed) ==
    LET v == JGet(parsed, "keywords")
    IN  IF v.t = "list" THEN [i \in 1..Len(v.v) |-> StrOf(v.v[i])] ELSE <<>>

TermsLimit == 50
TextLimit == 10

\* the catalog function the search flow calls, and the limit it passes
SearchCall(keywords) ==
    IF keywords # <<>> THEN [fn |-> "search_products_by_terms", limit |-> TermsLimit]
    ELSE [fn |-> "search_products", limit |-> TextLimit]

\* product_candidates of the search flow; a raising search gives []
SearchCandidates(keywords, user_text) ==
    IF keywords # <<>> THEN SearchProductsByTerms(keywords, TermsLimit)
    ELSE IF IsDigit(Strip(user_text)) /\ ~IsDecimal(Strip(user_text)) THEN <<>>
    ELSE SearchProducts(user_text, TextLimit)

-----------------------------------------------------------------------------
(* Inputs: webhook deliveries and the collaborators' answers.              *)

Handlers == {"h1", "h2"}

\* deliveries in a run of sequential turns, and in a run of concurrent ones
MaxDeliveries == 2
MaxRaceDeliveries == 2
MaxSelectDeliveries == 1
MaxFlowDeliveries == 1
MaxOverlapDeliveries == 2

U1 == <<"u">>
Id_a == <<"a">>
Id_a_padded == <<" ", "a">>
LongQuery ==
    <<"r", "e", "d", " ", "s", "h", "i", "r", "t", " ", "f", "o", "r", " ",
      "s", "u", "m", "m", "e", "r", "s">>
AnswerText == <<"answer">>
ListText == <<"1", ")", " ", "r", "e", "d">>

Froms == {U1}
WaIds == {NoneVal, Id_a, Id_a_padded}
Bodies == {<<"1">>, <<"2">>, <<"3">>, T.sh, LongQuery, NoneVal}

Payload(shape, frm, id, mtype, body) ==
    [shape |-> shape, frm |-> frm, id |-> id, mtype |-> mtype, body |-> body]

\* request bodies without a usable message: no "entry", entry without changes
\* (indexing raises), a status event without "messages", a message without "from"
OtherPayloads ==
    {Payload(sh, NoneVal, NoneVal, "none", NoneVal) :
        sh \in {"no_entry", "malformed", "no_messages"}}
    \cup {Payload("message", NoneVal, Id_a, "text", NoneVal)}

PathBodies == {<<"2">>, T.sh, LongQuery}

\* every body, without a provider id
DialoguePayloads ==
    OtherPayloads
    \cup {Payload("message", f, NoneVal, "text", b) : f \in Froms, b \in Bodies}
    \cup {Payload("message", f, NoneVal, "image", NoneVal) : f \in Froms}

\* every provider id
DeliveryPayloads ==
    OtherPayloads
    \cup {Payload("message", f, i, "text", T.sh) : f \in Froms, i \in WaIds}
    \cup {Payload("message", f, NoneVal, "text", b) : f \in Froms, b \in PathBodies}
    \cup {Payload("message", f, i, "image", NoneVal) : f \in Froms, i \in WaIds}

\* one body per path, without a provider id
LimitPayloads ==
    OtherPayloads
    \cup {Payload("message", f, NoneVal, "text", b) : f \in Froms, b \in PathBodies}
    \cup {Payload("message", f, NoneVal, "image", NoneVal) : f \in Froms}

\* texts for the selection step: short ones, and ones longer than twenty
\* characters that are all digits, hold a standalone digit, a standalone
\* zero, a marker word, a word _selection_index maps to a position, or none
\* of these
SelectBodies ==
    { <<"2">>, <<"9">>, <<"sup2">>, T.sh, NoneVal, LongQuery,
      [i \in 1..21 |-> IF i = 21 THEN "9" ELSE "0"],
      LongQuery \o <<" ", "9">>,
      LongQuery \o <<" ", "0">>,
      LongQuery \o <<" ">> \o W.raqam,
      LongQuery \o <<"#">>,
      LongQuery \o <<" ", "M">> \o Tail(W.middle) }

SelectPayloads ==
    {Payload("message", U1, NoneVal, "text", b) : b \in SelectBodies}
    \cup {Payload("message", U1, NoneVal, "image", NoneVal)}

\* a provider id that is missing, blank or present, on a text and on an image
BlankId == <<" ">>

RedeliveryPayloads ==
    OtherPayloads
    \cup {Payload("message", U1, i, t, IF t = "text" THEN T.sh ELSE NoneVal) :
            i \in {NoneVal, BlankId, Id_a}, t \in {"text", "image"}}
    \cup {Payload("message", U1, NoneVal, "text", LongQuery)}

\* a position and a fresh query, without a provider id
OverlapPayloads ==
    {Payload("message", U1, NoneVal, "text", b) : b \in {<<"2">>, LongQuery}}

\* a text every product has in a column
EveryRowPayload == Payload("message", U1, NoneVal, "text", T.x)

\* a position, a short text, a fresh query and an image
CapsPayloads ==
    {Payload("message", U1, NoneVal, "text", b) : b \in {<<"2">>, T.x, LongQuery}}
    \cup {Payload("message", U1, NoneVal, "image", NoneVal)}

\* one provider id, delivered more than once
RacePayloads ==
    {Payload("message", U1, Id_a, "text", b) : b \in PathBodies}
    \cup {Payload("message", U1, Id_a, "image", NoneVal)}

Obj1(k, v) == [x \in {k} |-> v]
Obj2(k1, v1, k2, v2) == [x \in {k1, k2} |-> IF x = k1 THEN v1 ELSE v2]

RateLimitTexts ==
    { <<"quota exceeded">>,
      <<"quota exceeded. ", M_retry, " ", "1", "0", "s">>,
      <<"quota exceeded. ", M_retry, " ", "1", "0", ".", "5", "s">>,
      <<"quota exceeded. ", M_retry, " ", "0", "s">> }

SelectionRaws ==
    { Raw("prose", EmptyState),
      Raw("object", Obj1("selected_id", JNull)),
      Raw("object", Obj1("selected_id", JInt(10))),
      Raw("fenced", Obj1("selected_id", JStr(<<"2", "0">>))),
      Raw("object", Obj1("selected_id", JInt(30))),
      Raw("object", Obj1("selected_id", JInt(99))),
      Raw("embedded", Obj1("selected_id", JStr(T.x))) }

ParseRaws ==
    { Raw("empty", EmptyState),
      Raw("object", Obj1("keywords", JList(<<JStr(T.red)>>))),
      Raw("fenced", Obj1("keywords", JList(<<JStr(T.red), JStr(T.sh)>>))),
      Raw("object", Obj1("keywords", JList(<<JStr(T.zz)>>))),
      Raw("object", Obj1("keywords", JStr(T.red))) }

RerankRaws ==
    { Raw("prose", EmptyState),
      Raw("object", Obj1("reply_text", JStr(ListText))),
      Raw("object", Obj1("reply_text", JInt(5))),
      Raw("object", Obj2("reply_text", JStr(ListText),
                         "presented_candidate_ids", JList(<<JInt(20), JInt(10)>>))),
      Raw("fenced", Obj2("reply_text", JStr(ListText),
                         "presented_candidate_ids", JList(<<JInt(99), JStr(<<"1", "0">>)>>))),
      Raw("object", Obj2("reply_text", JStr(ListText),
                         "presented_candidate_ids", JList(<<JInt(99), JStr(T.x)>>))),
      Raw("object", Obj1("presented_candidate_ids", JList(<<JInt(10)>>))) }

\* a rerank answer that claims six ids, each the id of a candidate
ManyIdsRaw ==
    Raw("object", Obj2("reply_text", JStr(ListText),
                       "presented_candidate_ids",
                       JList([i \in 1..6 |-> JInt(IF i % 2 = 1 THEN 20 ELSE 10)])))

AnswerTexts == {<<>>, AnswerText}

AnswerRaws == {Raw("text", t) : t \in AnswerTexts}

\* The inputs of a run.
\*   mode = "dialogue": one handler takes the deliveries one after the other;
\*       every body and every answer of the language model, no provider ids.
\*   mode = "delivery": the same, over every provider id and message type,
\*       with one language-model answer per path.
\*   mode = "limits": the same, over every rate-limit error text, with one
\*       body and one language-model answer per path.
\*   mode = "race": two handlers run concurrently on deliveries of one
\*       provider id, with one language-model answer per path.
\*   mode = "open": two handlers run concurrently on non-text deliveries,
\*       whose turns are the conversation lookup and the fixed reply.
\*   mode = "ttl": as "frame" from the usual stores, with time passing in
\*       the middle of a turn as well.
\*   mode = "frame": as "dialogue" with one language-model answer per path,
\*       from a store whose blob has a key the handler does not know.
\*   mode = "select": one delivery of each text that matters to the selection
\*       step, from stores with and without a prior presentation, with every
\*       answer of the selection and the answer calls.
\*   mode = "flow": as "dialogue", one delivery, and a message that every
\*       product matches as a substring (four rows).
\*   mode = "redelivery": deliveries without a provider id, with a blank one
\*       and with a real one, one language-model answer per path.
\*   mode = "overlap": two handlers run concurrently on text turns of one
\*       conversation, no collaborator failing.
\*   mode = "caps": one delivery against a blob that presents eleven
\*       candidates, with a rerank answer that claims six ids.
\*   mode = "index": _selection_index alone, on one text and one list length.
\*   mode = "replay": one message delivered twice, the language model
\*       replaced by a stand-in that gives one fixed text per call shape.
PathRaws ==
    { Raw("object", Obj1("selected_id", JInt(10))),
      Raw("object", Obj1("keywords", JList(<<JStr(T.red)>>))),
      Raw("object", Obj2("reply_text", JStr(ListText),
                         "presented_candidate_ids", JList(<<JInt(20), JInt(10)>>))),
      Raw("object", Obj1("presented_candidate_ids", JList(<<JInt(10)>>))),
      Raw("text", AnswerText) }

ActiveHandlers == IF mode \in {"race", "open", "overlap"} THEN Handlers ELSE {"h1"}

DeliveryLimit ==
    CASE mode \in {"race", "open"} -> MaxRaceDeliveries
      [] mode = "select" -> MaxSelectDeliveries
      [] mode \in {"flow", "caps"} -> MaxFlowDeliveries
      [] mode = "overlap" -> MaxOverlapDeliveries
      [] OTHER -> MaxDeliveries

PayloadsIn ==
    CASE mode = "race" -> RacePayloads
      [] mode = "open" -> {Payload("message", U1, i, "image", NoneVal) : i \in {NoneVal, Id_a}}
      [] mode = "replay" -> {probe.payload}
      [] mode = "select" -> SelectPayloads
      [] mode = "delivery" -> DeliveryPayloads
      [] mode = "limits" -> LimitPayloads
      [] mode = "redelivery" -> RedeliveryPayloads
      [] mode = "overlap" -> OverlapPayloads
      [] mode = "caps" -> CapsPayloads
      [] mode = "flow" -> DialoguePayloads \cup {EveryRowPayload}
      [] OTHER -> DialoguePayloads

\* answers added to those of a call shape in the runs about the caps
MoreRaws(raws) ==
    CASE raws = ParseRaws /\ mode = "caps" -> {Raw("empty", EmptyState)}
      [] raws = RerankRaws /\ mode = "caps" -> {ManyIdsRaw}
      [] OTHER -> {}

\* the text the stand-in of a replay returns for the call shape whose
\* possible texts are raws
StandIn(raws) ==
    CASE raws = ParseRaws -> probe.standin.parse
      [] raws = RerankRaws -> probe.standin.rerank
      [] raws = SelectionRaws -> probe.standin.choose
      [] OTHER -> probe.standin.answer

\* what one language-model call does: a text (one of raws), a rate-limit
\* error, another error (of the call, or of the insert_gemini_call after it)
Outcomes(raws) ==
    IF mode = "replay"
    THEN {[kind |-> "ok", raw |-> StandIn(raws), msg |-> <<>>]}
    ELSE
    {[kind |-> "ok", raw |-> r, msg |-> <<>>] :
        r \in IF \/ mode \in {"dialogue", "flow"}
                 \/ mode = "select" /\ raws \in {SelectionRaws, AnswerRaws}
                 \/ mode = "caps" /\ raws = SelectionRaws
              THEN raws \cup MoreRaws(raws)
              ELSE (raws \cap PathRaws) \cup MoreRaws(raws)}
    \cup {[kind |-> "rate_limit", raw |-> Raw("empty", EmptyState), msg |-> m] :
            m \in CASE mode = "limits" -> RateLimitTexts
                    [] mode = "overlap" -> {}
                    [] OTHER -> {<<"quota exceeded">>}}
    \cup {[kind |-> "error", raw |-> Raw("empty", EmptyState), msg |-> <<>>] :
            x \in IF mode = "overlap" THEN {} ELSE {0}}

-----------------------------------------------------------------------------
(* State.                                                                  *)

InitLoc ==
    [frm |-> NoneVal, wa_id |-> NoneVal, mtype |-> "none", text |-> <<>>,
     conv |-> 0, state |-> EmptyState, presented |-> <<>>, selected_id |-> 0,
     keywords |-> <<>>, cands |-> <<>>, reply_text |-> <<>>, ai_reply |-> <<>>,
     retry |-> NoHint, status |-> "none"]

\* what one turn did, for the properties: calls issued, rows appended,
\* messages sent, state writes, conversations opened
InitObs ==
    [recorded |-> FALSE, choose |-> 0, answer_ctx |-> 0, answer_plain |-> 0,
     parse |-> 0, rerank |-> 0, context |-> 0, search |-> 0, rows |-> <<>>,
     writes |-> 0, opened |-> 0,
     ctx_found |-> FALSE, wrote_search |-> FALSE, raised |-> FALSE,
     dup |-> FALSE, claimed |-> <<>>, last |-> "none", before |-> EmptyState,
     found |-> "none", searches |-> <<>>, rr_empty |-> FALSE,
     failed_at |-> "none", passed |-> 0]

InitProbe == [op |-> "none", text |-> <<>>, n |-> 0, result |-> 0]

\* The store when the process starts (init_chat_schema keeps what is there):
\* empty, or as left by one earlier turn of user U1 that presented the top
\* three rows of a term search in the fallback list.
PresentedRows == SearchProductsByTerms(<<T.red, T.sh>>, TermsLimit)

PresentedStore ==
    [convs |-> << [NewConversation(U1) EXCEPT !.state =
                      WithPresented(EmptyState,
                          [i \in 1..TopN |-> PresentedRows[i].id], PresentedRows)] >>,
     messages |-> { Stored(MessageRow(1, "user", "inbound", LongQuery, NoneVal)),
                    Stored(MessageRow(1, "assistant", "outbound",
                                      FallbackReply(Limit(PresentedRows, TopN)), NoneVal)) }]

EmptyStore == [convs |-> <<>>, messages |-> {}]

\* PresentedStore with one more key in the blob, written by something other
\* than the handler
ForeignStore ==
    [PresentedStore EXCEPT !.convs[1].state = Put(@, "campaign", JStr(T.red))]

InitWith(m, stores) ==
    /\ \E st \in stores : convs = st.convs /\ messages = st.messages
    /\ outbox = [p \in Handlers |-> <<>>]
    /\ pc = [p \in Handlers |-> "idle"]
    /\ loc = [p \in Handlers |-> InitLoc]
    /\ obs = [p \in Handlers |-> InitObs]
    /\ delivered = 0
    /\ mode = m
    /\ probe = InitProbe
    /\ unanswered = {}

Init == InitWith("dialogue", {EmptyStore, PresentedStore})

DeliveryInit == InitWith("delivery", {EmptyStore, PresentedStore})

LimitInit == InitWith("limits", {EmptyStore, PresentedStore})

RaceInit == InitWith("race", {PresentedStore})

FrameInit == InitWith("frame", {ForeignStore})

\* PresentedStore after a turn that resolved a selection: the ids are
\* popped, the candidates kept
SelectedStore ==
    [PresentedStore EXCEPT !.convs[1].state = Pop(Put(@, K_selected, 40), K_ids)]

\* a blob with the ids of one presented candidate and no candidates key
IdsOnlyStore ==
    [PresentedStore EXCEPT !.convs[1].state = Put(EmptyState, K_ids, <<40>>)]

SelectInit ==
    InitWith("select", {EmptyStore, PresentedStore, SelectedStore, IdsOnlyStore})

FlowInit == InitWith("flow", {EmptyStore, PresentedStore})

RedeliveryInit == InitWith("redelivery", {EmptyStore, PresentedStore})

OverlapInit == InitWith("overlap", {PresentedStore})

\* A blob left by something other than this handler (the state column is an
\* open JSON document), presenting eleven candidates: with both keys, and
\* with the ids alone.
ElevenIds == [i \in 1..11 |-> Products[((i - 1) % 4) + 1].id]

ElevenStore ==
    [PresentedStore EXCEPT !.convs[1].state =
        Put(Put(EmptyState, K_ids, ElevenIds), K_cands,
            [i \in 1..11 |-> Summary(ElevenIds[i], [display_name |-> T.red])])]

ElevenIdsStore ==
    [PresentedStore EXCEPT !.convs[1].state = Put(EmptyState, K_ids, ElevenIds)]

CapsInit == InitWith("caps", {ElevenStore, ElevenIdsStore})

OpenInit == InitWith("open", {EmptyStore, PresentedStore})

TtlInit == InitWith("ttl", {EmptyStore, PresentedStore})

\* Inputs of search_products_by_terms called on its own: every list of up
\* to MaxProbeTerms of the terms below, two lists longer than the cap of
\* twelve, and limits below and above the number of rows.
MaxProbeTerms == 2

ProbeTerms ==
    {T.red, T.sh, T.x, T.zz, NoneVal, <<" ", "R", "e", "d", " ">>}

RECURSIVE ListsOf(_, _)
ListsOf(S, n) ==
    IF n = 0 THEN {<<>>}
    ELSE ListsOf(S, n - 1)
         \cup {Append(l, x) : l \in {k \in ListsOf(S, n - 1) : Len(k) = n - 1}, x \in S}

LongLists ==
    { [i \in 1..13 |-> IF i = 13 THEN T.red ELSE T.zz],
      [i \in 1..14 |-> IF i = 2 THEN T.x ELSE IF i = 14 THEN T.sh ELSE T.red] }

TermLists == ListsOf(ProbeTerms, MaxProbeTerms) \cup LongLists

ProbeLimits == {1, 2, TermsLimit}

\* A replay: the starting store, the message and the stand-in are fixed at
\* the start; Restore puts the store back between the two deliveries.
ReplayInit ==
    /\ outbox = [p \in Handlers |-> <<>>]
    /\ pc = [p \in Handlers |-> "idle"]
    /\ loc = [p \in Handlers |-> InitLoc]
    /\ obs = [p \in Handlers |-> InitObs]
    /\ delivered = 0
    /\ mode = "replay"
    /\ unanswered = {}
    /\ \E st \in {EmptyStore, PresentedStore}, parse \in ParseRaws,
          rerank \in RerankRaws, answer \in AnswerRaws :
            /\ convs = st.convs /\ messages = st.messages
            /\ probe = [op |-> "replay", start |-> st,
                        payload |-> Payload("message", U1, NoneVal, "text", LongQuery),
                        standin |-> [parse |-> parse, rerank |-> rerank, answer |-> answer,
                                     choose |-> Raw("empty", EmptyState)],
                        restored |-> FALSE, first |-> <<>>]

SearchInit ==
    /\ convs = <<>> /\ messages = {}
    /\ outbox = [p \in Handlers |-> <<>>]
    /\ pc = [p \in Handlers |-> "idle"]
    /\ loc = [p \in Handlers |-> InitLoc]
    /\ obs = [p \in Handlers |-> InitObs]
    /\ delivered = 0
    /\ mode = "search"
    /\ unanswered = {}
    /\ \E ts \in TermLists, l \in ProbeLimits :
            probe = [op |-> "search_products_by_terms", terms |-> ts, limit |-> l,
                     returned |-> FALSE, result |-> <<>>]

Bump(o, k) == [o EXCEPT ![k] = @ + 1]

-----------------------------------------------------------------------------
(* POST /webhook, one action per collaborator call of the handler.         *)

\* request.json() up to the `if not user_number` test.  A delivery goes to
\* h1 when both handlers are idle (the two are interchangeable).
Receive(p) ==
    /\ pc[p] = "idle"
    /\ p \in ActiveHandlers
    /\ delivered < DeliveryLimit
    /\ p = "h2" => pc["h1"] # "idle"
    /\ delivered' = delivered + 1
    /\ \E d \in PayloadsIn :
        LET seen == /\ d.shape = "message" /\ d.frm # NoneVal
                    /\ Strip(OrElse(d.id, <<>>)) # <<>>
                    /\ \E m \in messages : m.wa_message_id = d.id
            start == [InitLoc EXCEPT !.frm = d.frm, !.wa_id = d.id, !.mtype = d.mtype,
                                     !.text = Strip(OrElse(d.body, <<>>))]
        IN  /\ obs' = [obs EXCEPT ![p] = [InitObs EXCEPT !.recorded = seen]]
            /\ CASE d.shape = "no_entry" ->
                      /\ pc' = [pc EXCEPT ![p] = "done"]
                      /\ loc' = [loc EXCEPT ![p] = [InitLoc EXCEPT !.status = "no entry"]]
                 [] d.shape = "malformed" ->
                      /\ pc' = [pc EXCEPT ![p] = "done"]
                      /\ loc' = [loc EXCEPT ![p] = [InitLoc EXCEPT !.status = "error"]]
                 [] d.shape = "no_messages" ->
                      /\ pc' = [pc EXCEPT ![p] = "done"]
                      /\ loc' = [loc EXCEPT ![p] =
                                    [InitLoc EXCEPT !.status = "not a message event"]]
                 [] OTHER ->
                      IF OrElse(d.frm, <<>>) = <<>>
                      THEN /\ pc' = [pc EXCEPT ![p] = "done"]
                           /\ loc' = [loc EXCEPT ![p] = [start EXCEPT !.status = "ok"]]
                      ELSE /\ pc' = [pc EXCEPT ![p] = "dedup"]
                           /\ loc' = [loc EXCEPT ![p] = start]
    /\ UNCHANGED <<convs, messages, outbox, mode, probe, unanswered>>

\* if wa_message_id_exists(wa_message_id): return {"status": "ok"}
Dedup(p) ==
    /\ pc[p] = "dedup"
    /\ IF WaMessageIdExists(loc[p].wa_id, messages)
       THEN /\ pc' = [pc EXCEPT ![p] = "done"]
            /\ loc' = [loc EXCEPT ![p].status = "ok"]
            /\ obs' = [obs EXCEPT ![p].dup = TRUE]
       ELSE /\ pc' = [pc EXCEPT ![p] = "conv_select"]
            /\ UNCHANGED <<loc, obs>>
    /\ UNCHANGED <<convs, messages, outbox, delivered, mode, probe, unanswered>>

\* variant: the `msg_type != "text"` branch is missing
AfterConversationAsText(p) == "load_state"

AfterConversation(p) == IF loc[p].mtype # "text" THEN "nt_append_in" ELSE "load_state"

\* variant: the open row is returned whatever its last activity
ConvSelectNoTtl(p) ==
    /\ pc[p] = "conv_select"
    /\ LET user == Strip(OrElse(loc[p].frm, <<>>))
           open == OpenConvsOf(convs, user)
       IN  IF user = <<>>
           THEN /\ pc' = [pc EXCEPT ![p] = "done"]
                /\ loc' = [loc EXCEPT ![p].status = "error"]
           ELSE IF open = {}
           THEN /\ pc' = [pc EXCEPT ![p] = "conv_insert"]
                /\ UNCHANGED loc
           ELSE /\ loc' = [loc EXCEPT ![p].conv = CHOOSE i \in open : TRUE]
                /\ pc' = [pc EXCEPT ![p] = AfterConversation(p)]
    /\ obs' = [obs EXCEPT ![p].found =
                    LET open == OpenConvsOf(convs, Strip(OrElse(loc[p].frm, <<>>)))
                    IN  IF open = {} THEN "absent"
                        ELSE IF \E i \in open : convs[i].stale THEN "stale" ELSE "live"]
    /\ UNCHANGED <<convs, messages, outbox, delivered, mode, probe, unanswered>>

\* get_or_create_open_conversation: the SELECT of the open row
ConvSelect(p) ==
    /\ pc[p] = "conv_select"
    /\ LET user == Strip(OrElse(loc[p].frm, <<>>))
           open == OpenConvsOf(convs, user)
       IN  IF user = <<>>
           THEN /\ pc' = [pc EXCEPT ![p] = "done"]
                /\ loc' = [loc EXCEPT ![p].status = "error"]
           ELSE IF open = {}
           THEN /\ pc' = [pc EXCEPT ![p] = "conv_insert"]
                /\ UNCHANGED loc
           ELSE LET row == CHOOSE i \in open : TRUE
                IN  /\ loc' = [loc EXCEPT ![p].conv = row]
                    /\ pc' = [pc EXCEPT ![p] =
                                IF convs[row].stale THEN "conv_close"
                                ELSE AfterConversation(p)]
    /\ obs' = [obs EXCEPT ![p].found =
                    LET open == OpenConvsOf(convs, Strip(OrElse(loc[p].frm, <<>>)))
                    IN  IF open = {} THEN "absent"
                        ELSE IF \E i \in open : convs[i].stale THEN "stale" ELSE "live"]
    /\ UNCHANGED <<convs, messages, outbox, delivered, mode, probe, unanswered>>

\* UPDATE chat_conversations SET status='closed' WHERE id = row id
ConvClose(p) ==
    /\ pc[p] = "conv_close"
    /\ convs' = [convs EXCEPT ![loc[p].conv].status = "closed"]
    /\ pc' = [pc EXCEPT ![p] = "conv_insert"]
    /\ UNCHANGED <<messages, outbox, loc, obs, delivered, mode, probe, unanswered>>

\* variant: the table has no unique index on the open row of a user
ConvInsertNoIndex(p) ==
    /\ pc[p] = "conv_insert"
    /\ convs' = Append(convs, NewConversation(Strip(OrElse(loc[p].frm, <<>>))))
    /\ loc' = [loc EXCEPT ![p].conv = Len(convs) + 1]
    /\ obs' = [obs EXCEPT ![p] = Bump(@, "opened")]
    /\ pc' = [pc EXCEPT ![p] = AfterConversation(p)]
    /\ UNCHANGED <<messages, outbox, delivered, mode, probe, unanswered>>

\* INSERT INTO chat_conversations ... RETURNING id; the unique index on
\* (user_number) WHERE status = 'open' rejects a second open row
ConvInsert(p) ==
    /\ pc[p] = "conv_insert"
    /\ LET user == Strip(OrElse(loc[p].frm, <<>>))
       IN  IF OpenConvsOf(convs, user) # {}
           THEN /\ pc' = [pc EXCEPT ![p] = "done"]
                /\ loc' = [loc EXCEPT ![p].status = "error", ![p].conv = 0]
                /\ obs' = [obs EXCEPT ![p].raised = TRUE]
                /\ UNCHANGED convs
           ELSE /\ convs' = Append(convs, NewConversation(user))
                /\ loc' = [loc EXCEPT ![p].conv = Len(convs) + 1]
                /\ obs' = [obs EXCEPT ![p] = Bump(@, "opened")]
                /\ pc' = [pc EXCEPT ![p] = AfterConversation(p)]
    /\ UNCHANGED <<messages, outbox, delivered, mode, probe, unanswered>>

\* state = get_conversation_state(conversation_id).  obs[p].before keeps the
\* blob as loaded for the properties that compare it with the blob stored
\* later; the dialogue runs, whose properties do not read it, leave it out.
LoadState(p) ==
    /\ pc[p] = "load_state"
    /\ loc' = [loc EXCEPT ![p].state = GetConversationState(convs, loc[p].conv)]
    /\ obs' = [obs EXCEPT ![p].before =
                    IF mode = "dialogue" THEN EmptyState
                    ELSE GetConversationState(convs, loc[p].conv)]
    /\ pc' = [pc EXCEPT ![p] = "append_in"]
    /\ UNCHANGED <<convs, messages, outbox, delivered, mode, probe, unanswered>>

\* append_message(role="user", direction="inbound", text=user_text or "[empty]")
AppendInbound(p) ==
    /\ pc[p] = "append_in"
    /\ messages' = Add(messages,
            Stored(MessageRow(loc[p].conv, "user", "inbound",
                              OrElse(loc[p].text, EmptyPlaceholder), loc[p].wa_id)))
    /\ convs' = Touch(convs, loc[p].conv)
    /\ obs' = [obs EXCEPT ![p].rows = Append(@,
            MessageRow(loc[p].conv, "user", "inbound",
                       OrElse(loc[p].text, EmptyPlaceholder), loc[p].wa_id))]
    /\ pc' = [pc EXCEPT ![p] = "decide"]
    /\ UNCHANGED <<outbox, loc, delivered, mode, probe, unanswered>>

\* get_recent_messages, then step 1 up to the first collaborator call
Decide(p) ==
    /\ pc[p] = "decide"
    /\ LET presented_list == PresentedList(loc[p].state)
           idx == SelectionIndex(loc[p].text, Len(presented_list))
       IN  IF presented_list = <<>>
           THEN /\ pc' = [pc EXCEPT ![p] = "parse"]
                /\ UNCHANGED loc
           ELSE IF idx = IndexRaises
           THEN /\ pc' = [pc EXCEPT ![p] = "done"]
                /\ loc' = [loc EXCEPT ![p].status = "error", ![p].presented = presented_list]
           ELSE IF idx # NoIndex
           THEN /\ loc' = [loc EXCEPT ![p].presented = presented_list,
                                      ![p].selected_id = PresentedAt(presented_list, idx)]
                /\ pc' = [pc EXCEPT ![p] =
                            IF PresentedAt(presented_list, idx) # 0 THEN "context"
                            ELSE "parse"]
           ELSE IF LooksLikeSelectionReply(loc[p].text)
           THEN /\ loc' = [loc EXCEPT ![p].presented = presented_list]
                /\ pc' = [pc EXCEPT ![p] = "choose"]
           ELSE /\ loc' = [loc EXCEPT ![p].presented = presented_list,
                                      ![p].state = Pop(Pop(@, K_cands), K_ids)]
                /\ pc' = [pc EXCEPT ![p] = "clear"]
    /\ UNCHANGED <<convs, messages, outbox, obs, delivered, mode, probe, unanswered>>

\* variant: the keys are popped from the turn's copy and never stored
ClearPresentedUnsaved(p) ==
    /\ pc[p] = "clear"
    /\ pc' = [pc EXCEPT ![p] = "parse"]
    /\ UNCHANGED <<convs, messages, outbox, loc, obs, delivered, mode, probe, unanswered>>

\* set_conversation_state after popping both presented keys
ClearPresented(p) ==
    /\ pc[p] = "clear"
    /\ convs' = SetConversationState(convs, loc[p].conv, loc[p].state)
    /\ obs' = [obs EXCEPT ![p] = Bump(@, "writes")]
    /\ pc' = [pc EXCEPT ![p] = "parse"]
    /\ UNCHANGED <<messages, outbox, loc, delivered, mode, probe, unanswered>>

\* except GeminiRateLimitError: the apology is built from the error's hint
RateLimited(p, msg) ==
    LET retry_s == RetryAfterFromErrorMessage(msg)
    IN  /\ loc' = [loc EXCEPT ![p].retry = retry_s,
                              ![p].ai_reply = RateLimitMessage(retry_s)]
        /\ pc' = [pc EXCEPT ![p] = "rl_send"]

\* variant: the last-resort handler apologises to the user as the rate-limit
\* branch does
AbortWithApology(p) ==
    /\ pc' = [pc EXCEPT ![p] = "rl_send"]
    /\ loc' = [loc EXCEPT ![p].ai_reply = ApologyNoNumber]

\* except Exception: return {"status": "error"}
Abort(p) ==
    /\ pc' = [pc EXCEPT ![p] = "done"]
    /\ loc' = [loc EXCEPT ![p].status = "error"]

\* variant: `except GeminiRateLimitError: raise` is missing, the rate limit is
\* swallowed with the other selection failures
ChooseFromPresentedSwallows(p) ==
    /\ pc[p] = "choose"
    /\ \E o \in Outcomes(SelectionRaws) :
      /\ obs' = [obs EXCEPT ![p] =
                    [Bump(@, "choose") EXCEPT
                        !.last = o.kind,
                        !.passed = Len(PassedToSelection(loc[p].presented))]]
      /\ CASE o.kind \in {"rate_limit", "error"} ->
                /\ pc' = [pc EXCEPT ![p] = "parse"]
                /\ UNCHANGED loc
          [] OTHER ->
                LET selected_id == ChosenId(LoadObject(o.raw))
                IN  /\ loc' = [loc EXCEPT ![p].selected_id = selected_id]
                    /\ pc' = [pc EXCEPT ![p] =
                                IF selected_id # 0 THEN "context" ELSE "parse"]
    /\ UNCHANGED <<convs, messages, outbox, delivered, mode, probe, unanswered>>

\* choose_from_presented(user_text, presented_list[:10]) and the use of its result
ChooseFromPresented(p) ==
    /\ pc[p] = "choose"
    /\ \E o \in Outcomes(SelectionRaws) :
      /\ obs' = [obs EXCEPT ![p] =
                    [Bump(@, "choose") EXCEPT
                        !.last = o.kind,
                        !.passed = Len(PassedToSelection(loc[p].presented))]]
      /\ CASE o.kind = "rate_limit" -> RateLimited(p, o.msg)
          [] o.kind = "error" ->
                /\ pc' = [pc EXCEPT ![p] = "parse"]
                /\ UNCHANGED loc
          [] OTHER ->
                LET selected_id == ChosenId(LoadObject(o.raw))
                IN  /\ loc' = [loc EXCEPT ![p].selected_id = selected_id]
                    /\ pc' = [pc EXCEPT ![p] =
                                IF selected_id # 0 THEN "context" ELSE "parse"]
    /\ UNCHANGED <<convs, messages, outbox, delivered, mode, probe, unanswered>>

\* variant: without a context the turn goes on to the search flow
GetProductContextFallsThrough(p) ==
    /\ pc[p] = "context"
    /\ IF HasProductContext(loc[p].selected_id)
       THEN /\ obs' = [obs EXCEPT ![p] = [Bump(@, "context") EXCEPT !.ctx_found = TRUE]]
            /\ loc' = [loc EXCEPT ![p].state =
                            Pop(Put(@, K_selected, loc[p].selected_id), K_ids)]
            /\ pc' = [pc EXCEPT ![p] = "persist_selection"]
       ELSE /\ obs' = [obs EXCEPT ![p] = Bump(@, "context")]
            /\ UNCHANGED loc
            /\ pc' = [pc EXCEPT ![p] = "parse"]
    /\ UNCHANGED <<convs, messages, outbox, delivered, mode, probe, unanswered>>

\* product_ctx = get_product_context(selected_id)
GetProductContext(p) ==
    /\ pc[p] = "context"
    /\ IF HasProductContext(loc[p].selected_id)
       THEN /\ obs' = [obs EXCEPT ![p] = [Bump(@, "context") EXCEPT !.ctx_found = TRUE]]
            /\ loc' = [loc EXCEPT ![p].state =
                            Pop(Put(@, K_selected, loc[p].selected_id), K_ids)]
            /\ pc' = [pc EXCEPT ![p] = "persist_selection"]
       ELSE /\ obs' = [obs EXCEPT ![p] = Bump(@, "context")]
            /\ loc' = [loc EXCEPT ![p].ai_reply = RePrompt]
            /\ pc' = [pc EXCEPT ![p] = "send"]
    /\ UNCHANGED <<convs, messages, outbox, delivered, mode, probe, unanswered>>

\* set_conversation_state with selected_product_id set and the ids popped
PersistSelection(p) ==
    /\ pc[p] = "persist_selection"
    /\ convs' = SetConversationState(convs, loc[p].conv, loc[p].state)
    /\ obs' = [obs EXCEPT ![p] = Bump(@, "writes")]
    /\ pc' = [pc EXCEPT ![p] = "answer_ctx"]
    /\ UNCHANGED <<messages, outbox, loc, delivered, mode, probe, unanswered>>

\* ask_gemini_with_prompt(user_text, history, product_context=product_ctx);
\* an empty ai_reply makes `if not ai_reply` enter the search flow
AnswerWithContext(p) ==
    /\ pc[p] = "answer_ctx"
    /\ \E o \in Outcomes(AnswerRaws) :
      /\ obs' = [obs EXCEPT ![p] = [Bump(@, "answer_ctx") EXCEPT !.last = o.kind]]
      /\ CASE o.kind = "rate_limit" -> RateLimited(p, o.msg)
          [] o.kind = "error" -> Abort(p)
          [] OTHER ->
                /\ loc' = [loc EXCEPT ![p].ai_reply = o.raw.obj]
                /\ pc' = [pc EXCEPT ![p] = IF o.raw.obj = <<>> THEN "parse" ELSE "send"]
    /\ UNCHANGED <<convs, messages, outbox, delivered, mode, probe, unanswered>>

\* parse_search_request(user_text, history)
ParseSearchRequest(p) ==
    /\ pc[p] = "parse"
    /\ \E o \in Outcomes(ParseRaws) :
      /\ obs' = [obs EXCEPT ![p] = [Bump(@, "parse") EXCEPT !.last = o.kind]]
      /\ CASE o.kind = "rate_limit" -> RateLimited(p, o.msg)
          [] o.kind = "error" -> Abort(p)
          [] OTHER ->
                /\ loc' = [loc EXCEPT ![p].keywords = Keywords(LoadObject(o.raw))]
                /\ pc' = [pc EXCEPT ![p] = "search"]
    /\ UNCHANGED <<convs, messages, outbox, delivered, mode, probe, unanswered>>

\* variant: the term search has no ORDER BY, its rows come in any order
SearchAnyOrder(p) ==
    /\ pc[p] = "search"
    /\ obs' = [obs EXCEPT ![p] = [Bump(@, "search") EXCEPT
                    !.searches = Append(@, SearchCall(loc[p].keywords))]]
    /\ LET rows == SearchCandidates(loc[p].keywords, loc[p].text)
       IN  \E f \in [1..Len(rows) -> 1..Len(rows)] :
            /\ \A i, j \in 1..Len(rows) : i # j => f[i] # f[j]
            /\ loc' = [loc EXCEPT ![p].cands = [i \in 1..Len(rows) |-> rows[f[i]]]]
            /\ pc' = [pc EXCEPT ![p] = IF rows # <<>> THEN "rerank" ELSE "answer_plain"]
    /\ UNCHANGED <<convs, messages, outbox, delivered, mode, probe, unanswered>>

\* variant: when the term search finds nothing the substring search is run
\* on the message as well
SearchThenText(p) ==
    /\ pc[p] = "search"
    /\ LET first == SearchCandidates(loc[p].keywords, loc[p].text)
           again == loc[p].keywords # <<>> /\ first = <<>>
           product_candidates == IF again THEN SearchCandidates(<<>>, loc[p].text) ELSE first
       IN  /\ obs' = [obs EXCEPT ![p] = [Bump(@, "search") EXCEPT
                        !.searches = Append(@, SearchCall(loc[p].keywords))
                                     \o (IF again THEN <<SearchCall(<<>>)>> ELSE <<>>)]]
           /\ loc' = [loc EXCEPT ![p].cands = product_candidates]
           /\ pc' = [pc EXCEPT ![p] =
                        IF product_candidates # <<>> THEN "rerank" ELSE "answer_plain"]
    /\ UNCHANGED <<convs, messages, outbox, delivered, mode, probe, unanswered>>

\* search_products_by_terms(keywords, 50) or search_products(user_text, 10)
Search(p) ==
    /\ pc[p] = "search"
    /\ obs' = [obs EXCEPT ![p] = [Bump(@, "search") EXCEPT
                    !.searches = Append(@, SearchCall(loc[p].keywords))]]
    /\ LET product_candidates == SearchCandidates(loc[p].keywords, loc[p].text)
       IN  /\ loc' = [loc EXCEPT ![p].cands = product_candidates]
           /\ pc' = [pc EXCEPT ![p] =
                        IF product_candidates # <<>> THEN "rerank" ELSE "answer_plain"]
    /\ UNCHANGED <<convs, messages, outbox, delivered, mode, probe, unanswered>>

\* variant: the fallback list is sent without storing its ids
FallbackKeepsState(l) ==
    [l EXCEPT !.ai_reply = FallbackReply(Limit(l.cands, TopN))]

\* the fallback branch: top3, the numbered list and the state to persist
Fallback(l) ==
    LET top3 == Limit(l.cands, TopN)
        top_ids == [i \in 1..Len(top3) |-> top3[i].id]
    IN  [l EXCEPT !.ai_reply = FallbackReply(top3),
                  !.state = WithPresented(l.state, top_ids, l.cands)]

\* rerank_candidates(user_text, history, product_candidates, 3) and the
\* validation of its result
Rerank(p) ==
    /\ pc[p] = "rerank"
    /\ \E o \in Outcomes(RerankRaws) :
      /\ obs' = [obs EXCEPT ![p] =
                    [Bump(@, "rerank") EXCEPT
                        !.claimed = ClaimedIds(LoadObject(o.raw)),
                        !.last = o.kind,
                        !.rr_empty = /\ o.kind = "ok"
                                     /\ ~ReplyTextRaises(LoadObject(o.raw))
                                     /\ ReplyText(LoadObject(o.raw)) = <<>>]]
      /\ CASE o.kind = "rate_limit" -> RateLimited(p, o.msg)
              [] o.kind = "error" -> Abort(p)
              [] OTHER ->
                    LET rr == LoadObject(o.raw)
                        safe_presented == SafePresented(rr, loc[p].cands)
                        reply_text == ReplyText(rr)
                    IN  IF ReplyTextRaises(rr) THEN Abort(p)
                        ELSE IF safe_presented # <<>>
                        THEN /\ loc' = [loc EXCEPT
                                    ![p].reply_text = reply_text,
                                    ![p].state = WithPresented(@, safe_presented, loc[p].cands)]
                             /\ pc' = [pc EXCEPT ![p] = "persist_safe"]
                        ELSE IF reply_text # <<>>
                        THEN /\ loc' = [loc EXCEPT ![p].ai_reply = reply_text]
                             /\ pc' = [pc EXCEPT ![p] = "send"]
                        ELSE /\ loc' = [loc EXCEPT ![p] = Fallback(@)]
                             /\ pc' = [pc EXCEPT ![p] = "persist_top"]
    /\ UNCHANGED <<convs, messages, outbox, delivered, mode, probe, unanswered>>

\* set_conversation_state(conversation_id, state) under `if safe_presented`
PersistSafe(p) ==
    /\ pc[p] = "persist_safe"
    /\ convs' = SetConversationState(convs, loc[p].conv, loc[p].state)
    /\ obs' = [obs EXCEPT ![p] = [Bump(@, "writes") EXCEPT !.wrote_search = TRUE]]
    /\ IF loc[p].reply_text # <<>>
       THEN /\ loc' = [loc EXCEPT ![p].ai_reply = loc[p].reply_text]
            /\ pc' = [pc EXCEPT ![p] = "send"]
       ELSE /\ loc' = [loc EXCEPT ![p] = Fallback(@)]
            /\ pc' = [pc EXCEPT ![p] = "persist_top"]
    /\ UNCHANGED <<messages, outbox, delivered, mode, probe, unanswered>>

\* set_conversation_state(conversation_id, state) of the fallback branch
PersistTop(p) ==
    /\ pc[p] = "persist_top"
    /\ convs' = SetConversationState(convs, loc[p].conv, loc[p].state)
    /\ obs' = [obs EXCEPT ![p] = [Bump(@, "writes") EXCEPT !.wrote_search = TRUE]]
    /\ pc' = [pc EXCEPT ![p] = "send"]
    /\ UNCHANGED <<messages, outbox, loc, delivered, mode, probe, unanswered>>

\* ask_gemini_with_prompt(user_text, history) when there are no candidates
AnswerPlain(p) ==
    /\ pc[p] = "answer_plain"
    /\ \E o \in Outcomes(AnswerRaws) :
      /\ obs' = [obs EXCEPT ![p] = [Bump(@, "answer_plain") EXCEPT !.last = o.kind]]
      /\ CASE o.kind = "rate_limit" -> RateLimited(p, o.msg)
          [] o.kind = "error" -> Abort(p)
          [] OTHER ->
                /\ loc' = [loc EXCEPT ![p].ai_reply = o.raw.obj]
                /\ pc' = [pc EXCEPT ![p] = "send"]
    /\ UNCHANGED <<convs, messages, outbox, delivered, mode, probe, unanswered>>

Sent(to, text) == [to |-> to, text |-> text]

\* send_whatsapp_message(user_number, ai_reply)
Send(p) ==
    /\ pc[p] = "send"
    /\ outbox' = [outbox EXCEPT ![p] = Append(@, Sent(loc[p].frm, loc[p].ai_reply))]
    /\ pc' = [pc EXCEPT ![p] = "append_out"]
    /\ UNCHANGED <<convs, messages, loc, obs, delivered, mode, probe, unanswered>>

\* append_message(role="assistant", direction="outbound", text=ai_reply);
\* raises ValueError on an empty text
AppendOutbound(p) ==
    /\ pc[p] = "append_out"
    /\ IF StoredText(loc[p].ai_reply) = <<>>
       THEN /\ Abort(p)
            /\ UNCHANGED <<messages, convs, obs>>
       ELSE /\ messages' = Add(messages,
                    Stored(MessageRow(loc[p].conv, "assistant", "outbound",
                                      loc[p].ai_reply, NoneVal)))
            /\ convs' = Touch(convs, loc[p].conv)
            /\ obs' = [obs EXCEPT ![p].rows = Append(@,
                    MessageRow(loc[p].conv, "assistant", "outbound",
                               loc[p].ai_reply, NoneVal))]
            /\ pc' = [pc EXCEPT ![p] = "done"]
            /\ loc' = [loc EXCEPT ![p].status = "ok"]
    /\ UNCHANGED <<outbox, delivered, mode, probe, unanswered>>

\* the rate-limit branch: send_whatsapp_message(user_number, msg)
RateLimitSend(p) ==
    /\ pc[p] = "rl_send"
    /\ outbox' = [outbox EXCEPT ![p] = Append(@, Sent(loc[p].frm, loc[p].ai_reply))]
    /\ pc' = [pc EXCEPT ![p] = "rl_append"]
    /\ UNCHANGED <<convs, messages, loc, obs, delivered, mode, probe, unanswered>>

\* the rate-limit branch: append_message(..., text=msg), then return ok
RateLimitAppend(p) ==
    /\ pc[p] = "rl_append"
    /\ messages' = Add(messages,
            Stored(MessageRow(loc[p].conv, "assistant", "outbound",
                              loc[p].ai_reply, NoneVal)))
    /\ convs' = Touch(convs, loc[p].conv)
    /\ obs' = [obs EXCEPT ![p].rows = Append(@,
            MessageRow(loc[p].conv, "assistant", "outbound",
                       loc[p].ai_reply, NoneVal))]
    /\ pc' = [pc EXCEPT ![p] = "done"]
    /\ loc' = [loc EXCEPT ![p].status = "ok"]
    /\ UNCHANGED <<outbox, delivered, mode, probe, unanswered>>

\* non-text: append_message(text=f"[non-text message type={msg_type}]", wa_message_id)
NonTextAppend(p) ==
    /\ pc[p] = "nt_append_in"
    /\ messages' = Add(messages,
            Stored(MessageRow(loc[p].conv, "user", "inbound",
                              NonTextPlaceholder(loc[p].mtype), loc[p].wa_id)))
    /\ convs' = Touch(convs, loc[p].conv)
    /\ obs' = [obs EXCEPT ![p].rows = Append(@,
            MessageRow(loc[p].conv, "user", "inbound",
                       NonTextPlaceholder(loc[p].mtype), loc[p].wa_id))]
    /\ loc' = [loc EXCEPT ![p].ai_reply = NonTextReply]
    /\ pc' = [pc EXCEPT ![p] = "nt_send"]
    /\ UNCHANGED <<outbox, delivered, mode, probe, unanswered>>

\* non-text: send_whatsapp_message(user_number, reply)
NonTextSend(p) ==
    /\ pc[p] = "nt_send"
    /\ outbox' = [outbox EXCEPT ![p] = Append(@, Sent(loc[p].frm, loc[p].ai_reply))]
    /\ pc' = [pc EXCEPT ![p] = "nt_append_out"]
    /\ UNCHANGED <<convs, messages, loc, obs, delivered, mode, probe, unanswered>>

\* variant: the non-text branch does not return after its reply
NonTextAppendOutFallsThrough(p) ==
    /\ pc[p] = "nt_append_out"
    /\ messages' = Add(messages,
            Stored(MessageRow(loc[p].conv, "assistant", "outbound",
                              loc[p].ai_reply, NoneVal)))
    /\ convs' = Touch(convs, loc[p].conv)
    /\ obs' = [obs EXCEPT ![p].rows = Append(@,
            MessageRow(loc[p].conv, "assistant", "outbound",
                       loc[p].ai_reply, NoneVal))]
    /\ pc' = [pc EXCEPT ![p] = "load_state"]
    /\ UNCHANGED <<loc, outbox, delivered, mode, probe, unanswered>>

\* non-text: append_message(role="assistant", ..., text=reply), then return ok
NonTextAppendOut(p) ==
    /\ pc[p] = "nt_append_out"
    /\ messages' = Add(messages,
            Stored(MessageRow(loc[p].conv, "assistant", "outbound",
                              loc[p].ai_reply, NoneVal)))
    /\ convs' = Touch(convs, loc[p].conv)
    /\ obs' = [obs EXCEPT ![p].rows = Append(@,
            MessageRow(loc[p].conv, "assistant", "outbound",
                       loc[p].ai_reply, NoneVal))]
    /\ pc' = [pc EXCEPT ![p] = "done"]
    /\ loc' = [loc EXCEPT ![p].status = "ok"]
    /\ UNCHANGED <<outbox, delivered, mode, probe, unanswered>>

\* the response is returned; the handler is free for the next delivery.
\* unanswered keeps the provider ids of the text messages whose turn
\* returned status error without a message sent, until a turn of that id
\* sends one.
Finish(p) ==
    /\ pc[p] = "done"
    /\ pc' = [pc EXCEPT ![p] = "idle"]
    /\ loc' = [loc EXCEPT ![p] = InitLoc]
    /\ obs' = [obs EXCEPT ![p] = InitObs]
    /\ outbox' = [outbox EXCEPT ![p] = <<>>]
    /\ unanswered' =
            LET id == Strip(OrElse(loc[p].wa_id, <<>>))
            IN  IF id = <<>> THEN unanswered
                ELSE IF outbox[p] # <<>> THEN unanswered \ {id}
                ELSE IF loc[p].status = "error" /\ loc[p].mtype = "text"
                THEN unanswered \cup {id}
                ELSE unanswered
    /\ UNCHANGED <<convs, messages, delivered, mode, probe>>

StoreSteps ==
    {"dedup", "conv_select", "conv_close", "conv_insert", "load_state", "append_in",
     "decide", "clear", "persist_selection", "persist_safe", "persist_top",
     "append_out", "nt_append_in", "nt_append_out"}

\* a conversation-store call raises (connection or statement error): no
\* try/except around it but the top-level one.  wa_message_id_exists returns
\* before it connects when the id is blank, so it cannot raise then.  obs[p].failed_at keeps the
\* step whose call raised, in the runs whose properties read it.
StoreFails(p) ==
    /\ pc[p] \in StoreSteps
    /\ pc[p] = "dedup" => Strip(OrElse(loc[p].wa_id, <<>>)) # <<>>
    /\ Abort(p)
    /\ obs' = [obs EXCEPT ![p].raised = TRUE,
                           ![p].failed_at = IF mode = "select" THEN pc[p] ELSE "none"]
    /\ UNCHANGED <<convs, messages, outbox, delivered, mode, probe, unanswered>>

\* send_whatsapp_message raises: before the request went out, or after it
\* (response.json() on a body that is not JSON)
SendFails(p) ==
    /\ pc[p] \in {"send", "nt_send"}
    /\ Abort(p)
    /\ \E went_out \in BOOLEAN :
        IF went_out
        THEN /\ outbox' = [outbox EXCEPT ![p] = Append(@, Sent(loc[p].frm, loc[p].ai_reply))]
             /\ obs' = [obs EXCEPT ![p].raised = TRUE]
        ELSE /\ UNCHANGED outbox
             /\ obs' = [obs EXCEPT ![p].raised = TRUE]
    /\ UNCHANGED <<convs, messages, delivered, mode, probe, unanswered>>

\* a catalog call raises: caught where it is made (product_ctx = None,
\* product_candidates = [])
CatalogFails(p) ==
    /\ \/ /\ pc[p] = "context"
          /\ obs' = [obs EXCEPT ![p] = Bump(@, "context")]
          /\ loc' = [loc EXCEPT ![p].ai_reply = RePrompt]
          /\ pc' = [pc EXCEPT ![p] = "send"]
       \/ /\ pc[p] = "search"
          /\ obs' = [obs EXCEPT ![p] = [Bump(@, "search") EXCEPT
                          !.searches = Append(@, SearchCall(loc[p].keywords))]]
          /\ loc' = [loc EXCEPT ![p].cands = <<>>]
          /\ pc' = [pc EXCEPT ![p] = "answer_plain"]
    /\ UNCHANGED <<convs, messages, outbox, delivered, mode, probe, unanswered>>

\* the rate-limit branch swallows what its send (before or after the request
\* went out) or its append raises
RateLimitReplyFails(p) ==
    /\ pc[p] \in {"rl_send", "rl_append"}
    /\ pc' = [pc EXCEPT ![p] = "done"]
    /\ loc' = [loc EXCEPT ![p].status = "ok"]
    /\ obs' = [obs EXCEPT ![p].raised = TRUE]
    /\ \E went_out \in BOOLEAN :
        IF went_out /\ pc[p] = "rl_send"
        THEN outbox' = [outbox EXCEPT ![p] = Append(@, Sent(loc[p].frm, loc[p].ai_reply))]
        ELSE UNCHANGED outbox
    /\ UNCHANGED <<convs, messages, delivered, mode, probe, unanswered>>

\* time passes: an open conversation's last activity falls behind the TTL cutoff
Expire ==
    /\ delivered < DeliveryLimit \/ \E p \in Handlers : pc[p] \in {"dedup", "conv_select"}
    /\ mode \in {"race", "open", "ttl"} \/ \A p \in Handlers : pc[p] = "idle"
    /\ \E i \in 1..Len(convs) :
        /\ convs[i].status = "open"
        /\ ~convs[i].stale
        /\ convs' = [convs EXCEPT ![i].stale = TRUE]
    /\ UNCHANGED <<messages, outbox, pc, loc, obs, delivered, mode, probe, unanswered>>

Step(p) ==
    \/ Receive(p) \/ Dedup(p) \/ ConvSelect(p) \/ ConvClose(p) \/ ConvInsert(p)
    \/ LoadState(p) \/ AppendInbound(p) \/ Decide(p) \/ ClearPresented(p)
    \/ ChooseFromPresented(p) \/ GetProductContext(p) \/ PersistSelection(p)
    \/ AnswerWithContext(p) \/ ParseSearchRequest(p) \/ Search(p) \/ Rerank(p)
    \/ PersistSafe(p) \/ PersistTop(p) \/ AnswerPlain(p) \/ Send(p)
    \/ AppendOutbound(p) \/ RateLimitSend(p) \/ RateLimitAppend(p)
    \/ NonTextAppend(p) \/ NonTextSend(p) \/ NonTextAppendOut(p) \/ Finish(p)
    \/ StoreFails(p) \/ SendFails(p) \/ CatalogFails(p) \/ RateLimitReplyFails(p)

Next == (\E p \in Handlers : Step(p)) \/ Expire

Spec == Init /\ [][Next]_vars

DeliverySpec == DeliveryInit /\ [][Next]_vars

LimitSpec == LimitInit /\ [][Next]_vars

RaceSpec == RaceInit /\ [][Next]_vars

FrameSpec == FrameInit /\ [][Next]_vars

TtlSpec == TtlInit /\ [][Next]_vars

SelectSpec == SelectInit /\ [][Next]_vars

FlowSpec == FlowInit /\ [][Next]_vars

RedeliverySpec == RedeliveryInit /\ [][Next]_vars

CapsSpec == CapsInit /\ [][Next]_vars

\* the steps of the turns on non-text messages
OpenNext ==
    \/ \E p \in Handlers :
            \/ Receive(p) \/ Dedup(p) \/ ConvSelect(p) \/ ConvClose(p) \/ ConvInsert(p)
            \/ NonTextAppend(p) \/ NonTextSend(p) \/ NonTextAppendOut(p) \/ Finish(p)
            \/ StoreFails(p) \/ SendFails(p)
    \/ Expire

OpenSpec == OpenInit /\ [][OpenNext]_vars

\* the steps of text turns on an open conversation whose collaborators answer
OverlapNext ==
    \E p \in Handlers :
        \/ Receive(p) \/ Dedup(p) \/ ConvSelect(p) \/ LoadState(p) \/ AppendInbound(p)
        \/ Decide(p) \/ ClearPresented(p) \/ GetProductContext(p) \/ PersistSelection(p)
        \/ AnswerWithContext(p) \/ ParseSearchRequest(p) \/ Search(p) \/ Rerank(p)
        \/ PersistSafe(p) \/ PersistTop(p) \/ Send(p) \/ AppendOutbound(p) \/ Finish(p)

OverlapSpec == OverlapInit /\ [][OverlapNext]_vars

\* the presented ids stored for the user's open conversation
StoredPresentedIds(cs, user) ==
    LET open == OpenConvsOf(cs, user)
    IN  IF open = {} THEN <<"no conversation">>
        ELSE LET s == cs[CHOOSE i \in open : TRUE].state
             IN  IF Has(s, K_ids) THEN <<"ids", s[K_ids]>> ELSE <<"absent">>

\* between the deliveries of a replay: what the first turn stored is noted
\* and the store is put back to its starting contents
Restore ==
    /\ mode = "replay"
    /\ delivered = 1
    /\ \A p \in Handlers : pc[p] = "idle"
    /\ ~probe.restored
    /\ probe' = [probe EXCEPT !.restored = TRUE,
                              !.first = StoredPresentedIds(convs, U1)]
    /\ convs' = probe.start.convs
    /\ messages' = probe.start.messages
    /\ UNCHANGED <<outbox, pc, loc, obs, delivered, mode, unanswered>>

\* the steps of a turn on a free-text message when no collaborator fails
ReplayNext ==
    \/ \E p \in Handlers :
            \/ Receive(p) \/ Dedup(p) \/ ConvSelect(p) \/ ConvInsert(p)
            \/ LoadState(p) \/ AppendInbound(p) \/ Decide(p) \/ ClearPresented(p)
            \/ ParseSearchRequest(p) \/ Search(p) \/ Rerank(p)
            \/ PersistSafe(p) \/ PersistTop(p) \/ AnswerPlain(p) \/ Send(p)
            \/ AppendOutbound(p) \/ Finish(p)
    \/ Restore

ReplaySpec == ReplayInit /\ [][ReplayNext]_vars

\* rows = search_products_by_terms(terms, limit)
CallSearch ==
    /\ probe.op = "search_products_by_terms"
    /\ ~probe.returned
    /\ probe' = [probe EXCEPT !.returned = TRUE,
                              !.result = SearchProductsByTerms(probe.terms, probe.limit)]
    /\ UNCHANGED <<convs, messages, outbox, pc, loc, obs, delivered, mode, unanswered>>

SearchNext == CallSearch

SearchSpec == SearchInit /\ [][SearchNext]_vars

\* Inputs of _selection_index called on its own: texts of every kind the
\* function tells apart, against lists of up to MaxN presented candidates.
MaxN == 4

IndexTexts ==
    { NoneVal, <<>>, <<" ">>, <<"0">>, <<"1">>, <<"2">>, <<"3">>, <<"4">>, <<"5">>,
      <<"9">>, <<"1", "2">>, <<"0", "2">>, <<" ", "2", " ">>, <<"sup2">>, <<"1", "sup2">>,
      T.sh, LongQuery, <<"a", "2">>,
      LongQuery \o <<" ", "3">>, LongQuery \o <<" ", "0">>, LongQuery \o <<" ", "9">>,
      W.raqam \o <<" ", "2">>, <<"#", "1">>, <<"7", " ", "2">>,
      W.fi_alnos, W.alnos, W.middle, <<"M">> \o Tail(W.middle),
      W.alnos \o <<" ", "3">>, W.alakhir \o <<" ", "1">>,
      W.altani \o <<" ">> \o W.alakhir, W.althaleth \o <<" ">> \o W.awwal,
      W.talet \o <<" ">> \o W.alnos, W.alawwal_plain }
    \cup {SelectionMapping[i].k : i \in 1..Len(SelectionMapping)}

IndexInit ==
    /\ convs = <<>> /\ messages = {}
    /\ outbox = [p \in Handlers |-> <<>>]
    /\ pc = [p \in Handlers |-> "idle"]
    /\ loc = [p \in Handlers |-> InitLoc]
    /\ obs = [p \in Handlers |-> InitObs]
    /\ delivered = 0
    /\ mode = "index"
    /\ unanswered = {}
    /\ \E t \in IndexTexts, n \in 0..MaxN :
            probe = [op |-> "_selection_index", text |-> t, max_n |-> n,
                     returned |-> FALSE, result |-> NoIndex]

\* idx = _selection_index(user_text, max_n)
CallSelectionIndex ==
    /\ probe.op = "_selection_index"
    /\ ~probe.returned
    /\ probe' = [probe EXCEPT !.returned = TRUE,
                              !.result = SelectionIndex(probe.text, probe.max_n)]
    /\ UNCHANGED <<convs, messages, outbox, pc, loc, obs, delivered, mode, unanswered>>

IndexNext == CallSelectionIndex

IndexSpec == IndexInit /\ [][IndexNext]_vars

-----------------------------------------------------------------------------
(* The GET endpoints of src/main.py: the verification handshake and the    *)
(* token-gated debug reads.  probe holds one request, how far its handler  *)
(* has come and its response.                                              *)

VERIFY_TOKEN == <<"pp1234567890">>

Response(status, kind, content, conv) ==
    [status |-> status, kind |-> kind, content |-> content, conv |-> conv]

\* variant: the token is not compared with VERIFY_TOKEN
VerifyWebhookAnyToken(hub_mode, token, challenge) ==
    IF hub_mode = <<"subscribe">> /\ challenge # NoneVal
    THEN Response(200, "challenge", challenge, 0)
    ELSE IF hub_mode = NoneVal /\ token = NoneVal /\ challenge = NoneVal
    THEN Response(200, "ok", <<"o", "k">>, 0)
    ELSE Response(403, "failed", <<"verification failed">>, 0)

\* verify_webhook: a query parameter that is absent is None
VerifyWebhook(hub_mode, token, challenge) ==
    IF hub_mode = <<"subscribe">> /\ token = VERIFY_TOKEN /\ challenge # NoneVal
    THEN Response(200, "challenge", challenge, 0)
    ELSE IF hub_mode = NoneVal /\ token = NoneVal /\ challenge = NoneVal
    THEN Response(200, "ok", <<"o", "k">>, 0)
    ELSE Response(403, "failed", <<"verification failed">>, 0)

\* ADMIN_TOKEN = os.getenv("ADMIN_TOKEN", "").strip()
AdminToken(env) == Strip(IF env = NoneVal THEN <<>> ELSE env)

\* variant: the `if not ADMIN_TOKEN` test is missing
RequireAdminUnconfigured(admin_token, x_admin_token) ==
    IF OrElse(x_admin_token, <<>>) = <<>> \/ Strip(x_admin_token) # admin_token
    THEN <<"forbidden">>
    ELSE <<>>

\* _require_admin(x_admin_token): the detail of the HTTPException it raises,
\* <<>> when it returns
RequireAdmin(admin_token, x_admin_token) ==
    IF admin_token = <<>> THEN <<"ADMIN_TOKEN not configured">>
    ELSE IF OrElse(x_admin_token, <<>>) = <<>> \/ Strip(x_admin_token) # admin_token
    THEN <<"forbidden">>
    ELSE <<>>

\* get_open_conversation_for_user(user_number): the id of the row, 0 for None
GetOpenConversationForUser(cs, user_number) ==
    LET open == OpenConvsOf(cs, Strip(OrElse(user_number, <<>>)))
    IN  IF Strip(OrElse(user_number, <<>>)) = <<>> \/ open = {} THEN 0
        ELSE CHOOSE i \in open : \A j \in open : j <= i

\* UUID(correlation_id) accepts the text
Uuids == {<<"0f8fad5b-d9cb-469f-a165-70867728950e">>}

DebugOps == {"debug_conversation", "debug_last_gemini", "debug_events"}

\* the requests: every combination of the handshake's three parameters, and
\* for each debug endpoint every configured token and every header
HubModes == {NoneVal, <<"subscribe">>, <<"Subscribe">>, <<"unsubscribe">>, <<>>}
HubTokens == {NoneVal, VERIFY_TOKEN, <<" ">> \o VERIFY_TOKEN, <<"pp">>, <<>>}
Challenges == {NoneVal, <<>>, <<"1", "2", "3">>, <<"o", "k">>}
AdminEnvs == {NoneVal, <<>>, <<" ">>, <<"s">>, <<" ", "s", " ">>}
AdminHeaders == {NoneVal, <<>>, <<" ">>, <<"s">>, <<" ", "s">>, <<"t">>}

Request(op, a, b, c) ==
    [op |-> op, a |-> a, b |-> b, c |-> c, stage |-> "request", reads |-> 0,
     response |-> Response(0, "none", <<>>, 0)]

EndpointInit ==
    /\ \E st \in {EmptyStore, PresentedStore} : convs = st.convs /\ messages = st.messages
    /\ outbox = [p \in Handlers |-> <<>>]
    /\ pc = [p \in Handlers |-> "idle"]
    /\ loc = [p \in Handlers |-> InitLoc]
    /\ obs = [p \in Handlers |-> InitObs]
    /\ delivered = 0
    /\ mode = "endpoint"
    /\ unanswered = {}
    /\ \/ \E m \in HubModes, t \in HubTokens, c \in Challenges :
            probe = Request("verify_webhook", m, t, c)
       \/ \E op \in DebugOps, env \in AdminEnvs, h \in AdminHeaders,
             arg \in {U1, <<" ", "u">>, <<"v">>} \cup Uuids :
            probe = Request(op, env, h, arg)

Returned(r) == [probe EXCEPT !.stage = "returned", !.response = r]

\* GET /webhook
CallVerifyWebhook ==
    /\ probe.op = "verify_webhook" /\ probe.stage = "request"
    /\ probe' = Returned(VerifyWebhook(probe.a, probe.b, probe.c))
    /\ UNCHANGED <<convs, messages, outbox, pc, loc, obs, delivered, mode, unanswered>>

\* the first statement of a debug endpoint: _require_admin(x_admin_token)
AdminGate ==
    /\ probe.op \in DebugOps /\ probe.stage = "request"
    /\ LET detail == RequireAdmin(AdminToken(probe.a), probe.b)
       IN  probe' = IF detail # <<>> THEN Returned(Response(403, "forbidden", detail, 0))
                    ELSE [probe EXCEPT !.stage = "admitted"]
    /\ UNCHANGED <<convs, messages, outbox, pc, loc, obs, delivered, mode, unanswered>>

\* GET /debug/conversation/{user_number}
DebugConversation ==
    /\ probe.op = "debug_conversation" /\ probe.stage = "admitted"
    /\ LET conv == GetOpenConversationForUser(convs, probe.c)
       IN  probe' =
             IF conv = 0
             THEN [Returned(Response(200, "not_found", <<>>, 0)) EXCEPT !.reads = 1]
             ELSE [Returned(Response(200, "data", <<>>, conv)) EXCEPT !.reads = 2]
    /\ UNCHANGED <<convs, messages, outbox, pc, loc, obs, delivered, mode, unanswered>>

\* GET /debug/last-gemini/{user_number}
DebugLastGemini ==
    /\ probe.op = "debug_last_gemini" /\ probe.stage = "admitted"
    /\ LET conv == GetOpenConversationForUser(convs, probe.c)
       IN  probe' =
             IF conv = 0
             THEN [Returned(Response(200, "not_found", <<>>, 0)) EXCEPT !.reads = 1]
             ELSE [Returned(Response(200, "data", <<>>, conv)) EXCEPT !.reads = 2]
    /\ UNCHANGED <<convs, messages, outbox, pc, loc, obs, delivered, mode, unanswered>>

\* GET /debug/events/{correlation_id}; UUID() raises on a text that is none
DebugEvents ==
    /\ probe.op = "debug_events" /\ probe.stage = "admitted"
    /\ probe' =
         IF probe.c \in Uuids
         THEN [Returned(Response(200, "data", probe.c, 0)) EXCEPT !.reads = 1]
         ELSE Returned(Response(500, "error", <<>>, 0))
    /\ UNCHANGED <<convs, messages, outbox, pc, loc, obs, delivered, mode, unanswered>>

\* a store read of a debug endpoint raises
DebugReadFails ==
    /\ probe.op \in DebugOps /\ probe.stage = "admitted"
    /\ probe.op = "debug_events" => probe.c \in Uuids
    /\ probe' = [Returned(Response(500, "error", <<>>, 0)) EXCEPT !.reads = 1]
    /\ UNCHANGED <<convs, messages, outbox, pc, loc, obs, delivered, mode, unanswered>>

EndpointNext ==
    \/ CallVerifyWebhook \/ AdminGate \/ DebugConversation \/ DebugLastGemini
    \/ DebugEvents \/ DebugReadFails

EndpointSpec == EndpointInit /\ [][EndpointNext]_vars

-----------------------------------------------------------------------------
(* Properties.  The vocabulary they share.                                 *)

LlmCalls(p) ==
    obs[p].choose + obs[p].answer_ctx + obs[p].answer_plain + obs[p].parse + obs[p].rerank

CatalogCalls(p) == obs[p].context + obs[p].search

\* the state blob stored for the conversation of p's turn
PersistedState(p) == convs[loc[p].conv].state

\* the delivery of p's turn carries a message with a sender
HasSender(p) == pc[p] # "idle" /\ loc[p].frm # NoneVal

\* inbound rows appended in the current turns that carry the provider id `id`
InboundWith(id) ==
    {<<p, i>> \in Handlers \X {1, 2} :
        /\ i <= Len(obs[p].rows)
        /\ obs[p].rows[i].direction = "inbound"
        /\ obs[p].rows[i].wa_message_id = id}

\* messages sent in the current turns whose delivery carries the provider id `id`
RepliesFor(id) ==
    {<<p, i>> \in Handlers \X {1, 2} : loc[p].wa_id = id /\ i <= Len(outbox[p])}

FloorSeconds(milli) == CHOOSE n \in 0..60 : n * 1000 <= milli /\ milli < (n + 1) * 1000

CeilSeconds(milli) == CHOOSE n \in 0..60 : (n - 1) * 1000 < milli /\ milli <= n * 1000

-----------------------------------------------------------------------------
\* C1: a delivery whose provider message id is already on a stored message
\* row appends no row, opens no conversation, issues no language-model or
\* catalog call and sends nothing.  Fails for an id with surrounding
\* whitespace: it is stored as sent and looked up stripped.
C1_RedeliveryDoesNothing ==
    \A p \in Handlers :
        obs[p].recorded =>
            /\ obs[p].rows = <<>>
            /\ obs[p].opened = 0
            /\ LlmCalls(p) = 0
            /\ CatalogCalls(p) = 0
            /\ outbox[p] = <<>>

\* C2: for two deliveries with the same provider message id handled
\* concurrently, at most one inbound row with that id is recorded and at
\* most one reply is sent.  Fails: both pass the duplicate check before
\* either appends its inbound row.
C2_AtMostOnePerId ==
    \A id \in WaIds \ {NoneVal} :
        /\ Cardinality(InboundWith(id)) <= 1
        /\ Cardinality(RepliesFor(id)) <= 1

C4_ChosenIdIsPresented ==
    \A p \in Handlers :
        obs[p].choose > 0 /\ loc[p].selected_id # 0 =>
            loc[p].selected_id \in CandIds(loc[p].presented)

\* C5: after a search-flow turn wrote the presented keys, every id in
\* last_presented_candidate_ids and in last_presented_candidates is the id of
\* a row of that turn's search result, and no id the model claimed outside
\* the result is among them.
C5_PresentedIdsAreSearchRows ==
    \A p \in Handlers :
        obs[p].wrote_search =>
            LET ids == GetList(PersistedState(p), K_ids)
                cands == GetList(PersistedState(p), K_cands)
                claimed == obs[p].claimed
            IN  /\ \A i \in 1..Len(ids) : ids[i] \in CandIds(loc[p].cands)
                /\ \A i \in 1..Len(cands) : cands[i].id \in CandIds(loc[p].cands)
                /\ \A i \in 1..Len(claimed) :
                      IntOk(claimed[i]) /\ IntOf(claimed[i]) \notin CandIds(loc[p].cands)
                        => \A j \in 1..Len(ids) : ids[j] # IntOf(claimed[i])

C5_Witness ==
    \E p \in Handlers :
        /\ obs[p].wrote_search /\ pc[p] = "send"
        /\ \E i \in 1..Len(obs[p].claimed) : obs[p].claimed[i] = JInt(99)
        /\ GetList(PersistedState(p), K_ids) = <<10>>
        /\ Len(loc[p].cands) > 1

\* C6: with N presented candidates and a message that is the decimal string
\* of k, 1 <= k <= N, _selection_index returns k, the selected id is that of
\* the k-th presented candidate and choose_from_presented is not called.
C6_PositionalSelection ==
    \A p \in Handlers :
        \A k \in 1..Len(loc[p].presented) :
            loc[p].text = IntToText(k) =>
                /\ SelectionIndex(loc[p].text, Len(loc[p].presented)) = k
                /\ loc[p].selected_id = loc[p].presented[k].id
                /\ obs[p].choose = 0

C6_Witness ==
    \E p \in Handlers :
        /\ pc[p] = "context"
        /\ loc[p].text = <<"3">> /\ Len(loc[p].presented) = 3
        /\ loc[p].selected_id = loc[p].presented[3].id
        /\ obs[p].choose = 0

\* C7: after a turn that resolved a candidate id and found its product
\* context, the stored state has selected_product_id equal to that id and no
\* last_presented_candidate_ids, and one answer call was made with the
\* context.  Fails when the grounded answer is empty: the search flow runs
\* in the same turn and presents again.
C7_SelectionPersisted ==
    \A p \in Handlers :
        (obs[p].ctx_found /\ pc[p] = "done" /\ loc[p].status = "ok" /\ ~obs[p].raised) =>
            /\ Has(PersistedState(p), K_selected)
            /\ PersistedState(p)[K_selected] = loc[p].selected_id
            /\ ~Has(PersistedState(p), K_ids)
            /\ obs[p].answer_ctx = 1

\* C8: in every stored state, last_presented_candidates present implies
\* last_presented_candidate_ids present, of the same length and with the
\* same id at every position.  Fails after a resolved selection, which
\* removes the ids and keeps the candidates.
C8_PresentedAligned ==
    \A c \in 1..Len(convs) :
        LET s == convs[c].state
        IN  Has(s, K_cands) =>
                /\ Has(s, K_ids)
                /\ Len(s[K_cands]) = Len(s[K_ids])
                /\ \A i \in 1..Len(s[K_cands]) : s[K_cands][i].id = s[K_ids][i]

\* C9: a delivery of a non-text message that the duplicate check lets
\* through makes no language-model call, no catalog lookup and no state
\* write, leaves the state blob of every conversation as it was, and, when
\* it returns ok, has appended the placeholder inbound row with the provider
\* id and the outbound row of the fixed reply and has sent that reply once.
C9_NonTextTurn ==
    /\ [](\A p \in Handlers :
            HasSender(p) /\ loc[p].mtype # "text" =>
                /\ LlmCalls(p) = 0
                /\ CatalogCalls(p) = 0
                /\ obs[p].writes = 0
                /\ (pc[p] = "done" /\ loc[p].status = "ok" /\ ~obs[p].dup) =>
                      /\ obs[p].rows =
                            << MessageRow(loc[p].conv, "user", "inbound",
                                          NonTextPlaceholder(loc[p].mtype), loc[p].wa_id),
                               MessageRow(loc[p].conv, "assistant", "outbound",
                                          NonTextReply, NoneVal) >>
                      /\ outbox[p] = <<Sent(loc[p].frm, NonTextReply)>>)
    /\ [][\A p \in Handlers :
            HasSender(p) /\ loc[p].mtype # "text" =>
                \A c \in 1..Len(convs) : convs'[c].state = convs[c].state]_vars

C9_Witness ==
    \E p \in Handlers :
        /\ pc[p] = "done" /\ loc[p].status = "ok" /\ ~obs[p].dup
        /\ loc[p].mtype = "image" /\ loc[p].wa_id = Id_a
        /\ Len(obs[p].rows) = 2 /\ Len(outbox[p]) = 1
        /\ GetList(PersistedState(p), K_ids) # <<>>

\* C10, as the code has it: the apology for a rate-limit error with a
\* positive hint of h seconds states floor(h) + 1 seconds (11 for h = 10 and
\* for h = 10.5); with no hint or a hint that is not positive it states no
\* number; the apology is the message sent.
C10_ApologyWait ==
    \A p \in Handlers :
        pc[p] \in {"rl_send", "rl_append"} =>
            LET h == loc[p].retry
            IN  /\ h > 0 => loc[p].ai_reply = ApologyWait(FloorSeconds(h) + 1)
                /\ h <= 0 => loc[p].ai_reply = ApologyNoNumber
                /\ pc[p] = "rl_append" => outbox[p] = <<Sent(loc[p].frm, loc[p].ai_reply)>>

C10_Witness ==
    \E p \in Handlers :
        /\ pc[p] = "rl_append"
        /\ loc[p].retry = 10500
        /\ outbox[p] = <<Sent(U1, ApologyWait(11))>>

\* C10 as stated: the apology states ceil(h) + 1 seconds for every positive
\* hint h.
C10_ApologyCeilPlusOne ==
    \A p \in Handlers :
        pc[p] \in {"rl_send", "rl_append"} /\ loc[p].retry > 0 =>
            loc[p].ai_reply = ApologyWait(CeilSeconds(loc[p].retry) + 1)

-----------------------------------------------------------------------------
\* the two presented-list keys of a state blob
PresentedKeys(s) == [k \in {K_ids, K_cands} \cap DOMAIN s |-> s[k]]

\* C11: in a turn in which a language-model call raised a rate-limit error
\* the stored last_presented_candidate_ids and last_presented_candidates are
\* what they were when the turn loaded the state.  Fails: a text that is not
\* a selection reply clears both keys, and a resolved selection pops the ids,
\* before the call that is then rate limited.
C11_RateLimitKeepsPresented ==
    \A p \in Handlers :
        (obs[p].last = "rate_limit" /\ loc[p].conv \in 1..Len(convs))
            => PresentedKeys(PersistedState(p)) = PresentedKeys(obs[p].before)

-----------------------------------------------------------------------------
\* the apology texts of the rate-limit branch
Apologies == {ApologyNoNumber} \cup {ApologyWait(n) : n \in 1..61}

\* the outbound rows handler p appended in its turn
OutboundRows(p) ==
    SelectSeq(obs[p].rows, LAMBDA r : r.direction = "outbound")

\* C12, as the code has it: once a language-model call of a turn has raised
\* a rate-limit error (the selection call included) the turn makes no further
\* language-model call and no catalog lookup, sends and records nothing but
\* the apology, at most once, and returns status ok; the apology is sent and
\* recorded exactly once unless its own send or append raises, which the
\* branch swallows.
C12_RateLimitEndsTurn ==
    /\ [](\A p \in Handlers :
            obs[p].last = "rate_limit" =>
                /\ pc[p] \in {"rl_send", "rl_append", "done"}
                /\ Len(outbox[p]) <= 1 /\ Len(OutboundRows(p)) <= 1
                /\ \A i \in 1..Len(outbox[p]) :
                        outbox[p][i].to = loc[p].frm /\ outbox[p][i].text \in Apologies
                /\ \A i \in 1..Len(OutboundRows(p)) :
                        /\ OutboundRows(p)[i].text \in Apologies
                        /\ outbox[p] = <<Sent(loc[p].frm, OutboundRows(p)[i].text)>>
                /\ pc[p] = "done" => loc[p].status = "ok"
                /\ (pc[p] = "done" /\ ~obs[p].raised)
                        => Len(outbox[p]) = 1 /\ Len(OutboundRows(p)) = 1)
    /\ [][\A p \in Handlers :
            obs[p].last = "rate_limit" =>
                IF pc[p] = "done" THEN obs'[p] \in {obs[p], InitObs}
                ELSE /\ obs'[p].last = "rate_limit"
                     /\ LlmCalls(p)' = LlmCalls(p)
                     /\ CatalogCalls(p)' = CatalogCalls(p)]_vars

C12_Witness ==
    \E p \in Handlers :
        /\ pc[p] = "done" /\ obs[p].last = "rate_limit" /\ obs[p].choose = 1
        /\ LlmCalls(p) = 1 /\ CatalogCalls(p) = 0
        /\ loc[p].status = "ok"
        /\ outbox[p] = <<Sent(U1, ApologyWait(11))>>
        /\ Len(OutboundRows(p)) = 1

\* C12 as stated: every turn with a rate-limited call sends and records
\* exactly one apology.
C12_ExactlyOneApology ==
    \A p \in Handlers :
        (pc[p] = "done" /\ obs[p].last = "rate_limit")
            => Len(outbox[p]) = 1 /\ Len(OutboundRows(p)) = 1

-----------------------------------------------------------------------------
\* C13: whatever the interleaving of the handlers' get_or_create_open_conversation
\* steps and of time passing, no user number has two conversations with
\* status open.
C13_AtMostOneOpen ==
    \A i, j \in 1..Len(convs) :
        (/\ convs[i].status = "open" /\ convs[j].status = "open"
         /\ convs[i].user_number = convs[j].user_number) => i = j

\* two handlers found no usable open conversation; one has inserted its row
\* and the other is about to insert
C13_Witness ==
    \E p, q \in Handlers :
        /\ p # q
        /\ obs[p].opened = 1 /\ loc[p].conv = 2
        /\ pc[q] = "conv_insert"
        /\ convs[1].status = "closed" /\ convs[2].status = "open"
        /\ convs[1].user_number = convs[2].user_number

-----------------------------------------------------------------------------
\* handler p is past get_or_create_open_conversation, which returned an id
PastConversation(p) ==
    pc[p] \notin {"idle", "dedup", "conv_select", "conv_close", "conv_insert", "done"}

\* C14: a message of a user with no open conversation creates exactly one
\* conversation, open and with an empty state; a message that finds the
\* user's open conversation within the TTL is handled in that conversation
\* and creates none; every appended message and every state write leaves the
\* conversation it is made in within the TTL.
C14_OpenOnceThenReuse ==
    /\ [](\A p \in Handlers :
            /\ obs[p].opened <= 1
            /\ (PastConversation(p) /\ obs[p].found = "absent") => obs[p].opened = 1
            /\ obs[p].found = "live" =>
                    /\ obs[p].opened = 0
                    /\ PastConversation(p) => loc[p].conv \in 1..Len(convs))
    /\ [][\A p \in Handlers :
            \* the row a first message inserts
            /\ obs'[p].opened = obs[p].opened + 1 =>
                    /\ obs[p].found \in {"absent", "stale"}
                    /\ Len(convs') = Len(convs) + 1
                    /\ \A i \in 1..Len(convs) : convs'[i] = convs[i]
                    /\ convs'[Len(convs')].status = "open"
                    /\ convs'[Len(convs')].state = EmptyState
                    /\ convs'[Len(convs')].user_number = loc[p].frm
                    /\ loc'[p].conv = Len(convs')
            \* the open conversation found within the TTL is the one returned
            /\ (pc[p] = "conv_select" /\ obs'[p].found = "live") =>
                    /\ PastConversation(p)'
                    /\ convs[loc'[p].conv].status = "open"
                    /\ convs[loc'[p].conv].user_number = loc[p].frm
                    /\ ~convs[loc'[p].conv].stale
                    /\ convs' = convs
            \* the id does not change in the rest of the turn
            /\ (PastConversation(p) /\ pc'[p] # "idle") => loc'[p].conv = loc[p].conv
            \* appended messages and state writes refresh the last activity
            /\ (pc'[p] # "idle" /\ (Len(obs'[p].rows) > Len(obs[p].rows)
                                     \/ obs'[p].writes > obs[p].writes))
                    => ~convs'[loc[p].conv].stale]_vars

\* a second message finds the conversation the first one created, last
\* written by a state write, within the TTL
C14_Witness ==
    \E p \in Handlers :
        /\ PastConversation(p) /\ obs[p].found = "live" /\ obs[p].opened = 0
        /\ loc[p].conv = 2 /\ Len(convs) = 2
        /\ convs[2].status = "open" /\ convs[2].state # EmptyState

-----------------------------------------------------------------------------
\* C15: when get_or_create_open_conversation finds the user's open
\* conversation with a last activity older than the TTL, that conversation is
\* closed before the new row is inserted, the id returned is that of the new
\* row, open and with an empty state, and a closed conversation is never
\* returned and never open again.
C15_ExpiredIsReplaced ==
    /\ [](\A p \in Handlers :
            (PastConversation(p) /\ obs[p].found = "stale") =>
                /\ obs[p].opened = 1
                /\ loc[p].conv \in 2..Len(convs)
                /\ \E i \in 1..(loc[p].conv - 1) :
                        /\ convs[i].status = "closed"
                        /\ convs[i].user_number = loc[p].frm)
    /\ [][/\ \A i \in 1..Len(convs) :
                convs[i].status = "closed" =>
                    i \in 1..Len(convs') /\ convs'[i].status = "closed"
          /\ \A p \in Handlers :
                /\ (obs[p].found = "stale" /\ obs'[p].opened = obs[p].opened + 1) =>
                        /\ convs[loc[p].conv].status = "closed"
                        /\ loc'[p].conv = Len(convs) + 1
                        /\ convs'[loc'[p].conv].status = "open"
                        /\ convs'[loc'[p].conv].state = EmptyState
                /\ (~PastConversation(p) /\ PastConversation(p)') =>
                        convs'[loc'[p].conv].status = "open"]_vars

\* an expired conversation that presented a list was closed and replaced,
\* and the turn loaded the new conversation's state
C15_Witness ==
    \E p \in Handlers :
        /\ pc[p] = "append_in" /\ obs[p].found = "stale" /\ obs[p].opened = 1
        /\ convs[1].status = "closed" /\ Has(convs[1].state, K_ids)
        /\ loc[p].conv = 2 /\ convs[2].status = "open"
        /\ loc[p].state = EmptyState

-----------------------------------------------------------------------------
\* the part of a state blob under the keys the handler does not know
ForeignKeys(s) == [k \in (DOMAIN s) \ {K_ids, K_cands, K_selected} |-> s[k]]

\* C16: no step changes, in any conversation's stored blob, a key other than
\* last_presented_candidate_ids, last_presented_candidates and
\* selected_product_id; after every state write of a turn the stored blob
\* has those other keys as the turn loaded them.
C16_ForeignKeysKept ==
    /\ [](\A p \in Handlers :
            (obs[p].writes >= 1 /\ loc[p].conv \in 1..Len(convs)) =>
                ForeignKeys(PersistedState(p)) = ForeignKeys(obs[p].before))
    /\ [][\A i \in 1..Len(convs) :
            /\ i \in 1..Len(convs')
            /\ ForeignKeys(convs'[i].state) = ForeignKeys(convs[i].state)]_vars

\* a search turn rewrote the presented list of a blob that has another key
C16_Witness ==
    \E p \in Handlers :
        /\ pc[p] = "done" /\ obs[p].wrote_search /\ loc[p].conv = 1
        /\ Has(obs[p].before, "campaign")
        /\ GetList(PersistedState(p), K_ids) # GetList(obs[p].before, K_ids)
        /\ PersistedState(p)["campaign"] = JStr(T.red)

-----------------------------------------------------------------------------
\* C17: a text message whose turn returned status error with nothing sent is
\* processed when it is delivered again: its redelivery is not dropped by
\* the duplicate check.  Fails: the inbound row that carries the provider id
\* is appended before the calls that can abort the turn, so every redelivery
\* is dropped and no reply is ever sent.
C17_RedeliveryIsProcessed ==
    \A p \in Handlers :
        obs[p].dup => Strip(OrElse(loc[p].wa_id, <<>>)) \notin unanswered

-----------------------------------------------------------------------------
\* the last language-model call of p's turn was a parse, rerank or
\* selection call (an answer call, when made after them, ends the turn)
StructuredCallLast(p) ==
    \/ obs[p].rerank = 1
    \/ /\ obs[p].choose + obs[p].parse >= 1
       /\ obs[p].answer_plain = 0 /\ obs[p].answer_ctx = 0

\* C18: whatever text the parse, rerank or selection call returns, the turn
\* does not fail: when that call returned and no store or transport call
\* raised, the handler has sent one reply and returns status ok.  Fails for
\* a rerank object whose reply_text is a number: `.strip()` on it raises.
C18_MalformedOutputDefaulted ==
    \A p \in Handlers :
        (/\ pc[p] = "done" /\ obs[p].last = "ok" /\ StructuredCallLast(p)
         /\ ~obs[p].raised)
            => loc[p].status = "ok" /\ Len(outbox[p]) = 1

-----------------------------------------------------------------------------
\* the (term, field) pairs of product p in which the term occurs in the
\* field, over the cleaned terms and the five searched fields
MatchingPairs(p, terms) ==
    {<<i, j>> \in (1..Len(terms)) \X (1..5) :
        /\ SearchFields(p)[j] # NoneVal
        /\ Contains(Lower(SearchFields(p)[j]), Lower(terms[i]))}

\* the products the search is to return, with their scores
ExpectedRows(terms) ==
    {[id |-> Products[n].id, match_score |-> Cardinality(MatchingPairs(Products[n], terms))] :
        n \in {m \in 1..Len(Products) :
                /\ ~Products[m].deleted
                /\ MatchingPairs(Products[m], terms) # {}}}

IdAndScore(row) == [id |-> row.id, match_score |-> row.match_score]

\* score descending, then id descending
RankedBefore(a, b) ==
    a.match_score > b.match_score \/ (a.match_score = b.match_score /\ a.id > b.id)

\* C19: search_products_by_terms returns the non-deleted products with at
\* least one (term, field) match over the cleaned terms (stripped, blank and
\* one-character terms dropped, the first twelve kept) and the five fields,
\* each with match_score the number of its matching pairs, by score and then
\* id descending, cut to the limit.  Fails with two terms or more (the
\* patterns are bound to the wrong placeholders) and for a product with a
\* NULL field (its score is NULL and it sorts first).
C19_SearchByTerms ==
    probe.returned =>
        LET terms == CleanedTerms(probe.terms)
            expected == ExpectedRows(terms)
            rows == [i \in 1..Len(probe.result) |-> IdAndScore(probe.result[i])]
            limit == probe.limit
        IN  /\ Len(rows) = (IF Cardinality(expected) < limit
                            THEN Cardinality(expected) ELSE limit)
            /\ \A i \in 1..Len(rows) : rows[i] \in expected
            /\ \A i, j \in 1..Len(rows) : i < j => RankedBefore(rows[i], rows[j])
            /\ \A e \in expected :
                    (\A i \in 1..Len(rows) : rows[i] # e)
                        => \A i \in 1..Len(rows) : RankedBefore(rows[i], e)

-----------------------------------------------------------------------------
-----------------------------------------------------------------------------
\* C21: GET /webhook answers 200 with the supplied challenge as its body
\* exactly when hub.mode is "subscribe", hub.verify_token is the shared
\* secret and hub.challenge is present (an empty one included); a request
\* with none of the three parameters gets 200 with the body "ok"; every
\* other request gets 403.
C21_VerifyHandshake ==
    (probe.op = "verify_webhook" /\ probe.stage = "returned") =>
        LET verified == /\ probe.a = <<"subscribe">> /\ probe.b = VERIFY_TOKEN
                        /\ probe.c # NoneVal
            bare == probe.a = NoneVal /\ probe.b = NoneVal /\ probe.c = NoneVal
            r == probe.response
        IN  /\ verified => r.status = 200 /\ r.kind = "challenge" /\ r.content = probe.c
            /\ bare => r.status = 200 /\ r.kind = "ok" /\ r.content = <<"o", "k">>
            /\ (~verified /\ ~bare) => r.status = 403 /\ r.kind = "failed"
            /\ r.status \in {200, 403}

\* the handshake with the secret and a challenge was answered with the challenge
C21_Witness ==
    /\ probe.op = "verify_webhook" /\ probe.stage = "returned"
    /\ probe.a = <<"subscribe">> /\ probe.b = VERIFY_TOKEN
    /\ probe.c = <<"1", "2", "3">>
    /\ probe.response = Response(200, "challenge", <<"1", "2", "3">>, 0)


-----------------------------------------------------------------------------
\* the configured admin token of the request held in probe is not empty and
\* the X-Admin-Token header, trimmed, equals it
Authorised ==
    /\ probe.a # NoneVal /\ Strip(probe.a) # <<>>
    /\ probe.b # NoneVal /\ Strip(probe.b) = Strip(probe.a)

\* C22: a debug endpoint reads the store and returns data only when
\* ADMIN_TOKEN is configured non-empty and the trimmed X-Admin-Token header
\* equals it; every other request, whatever its header when ADMIN_TOKEN is
\* unset or empty, is answered 403 with no store read made.
C22_DebugNeedsAdminToken ==
    probe.op \in DebugOps =>
        /\ probe.stage = "admitted" => Authorised
        /\ probe.reads > 0 => Authorised
        /\ probe.stage = "returned" =>
                IF Authorised
                THEN probe.response.status # 403
                ELSE /\ probe.response.status = 403
                     /\ probe.response.kind = "forbidden"
                     /\ probe.reads = 0

\* a request with the token, padded on both sides, got the open conversation
C22_Witness ==
    /\ probe.op = "debug_conversation" /\ probe.stage = "returned"
    /\ probe.a = <<" ", "s", " ">> /\ probe.b = <<" ", "s">>
    /\ probe.response = Response(200, "data", <<>>, 1)
    /\ probe.reads = 2


-----------------------------------------------------------------------------
\* the selection step of p's turn has been decided
PastDecide(p) ==
    pc[p] \in {"choose", "clear", "context", "persist_selection", "answer_ctx", "parse",
               "search", "rerank", "persist_safe", "persist_top", "answer_plain", "send",
               "append_out", "rl_send", "rl_append"}

\* the text is not empty and is at most twenty characters long, or all
\* digits, or holds a digit 1-9 standing alone, or holds a marker word
SelectionLike(t) ==
    /\ t # <<>>
    /\ \/ Len(t) <= 20
       \/ \A i \in 1..Len(t) : IsDigitChar(t[i])
       \/ \E i \in 1..Len(t) :
              /\ t[i] \in {"1", "2", "3", "4", "5", "6", "7", "8", "9"}
              /\ (i = 1 \/ ~IsWordChar(t[i - 1]))
              /\ (i = Len(t) \/ ~IsWordChar(t[i + 1]))
       \/ \E s \in SelectionTerms : Contains(Lower(t), s)

\* the conditions under which the selection call is to be made in p's turn
SelectionCallDue(p) ==
    LET prior == PresentedList(obs[p].before)
    IN  /\ prior # <<>>
        /\ SelectionIndex(loc[p].text, Len(prior)) = NoIndex
        /\ SelectionLike(loc[p].text)

\* C23: choose_from_presented is called in a turn exactly when the loaded
\* state holds a prior presentation, _selection_index gives no index for the
\* message and the message looks like a selection reply; it is called at
\* most once in a turn, and never without a prior presentation.
C23_SelectionCallIffDue ==
    /\ [](\A p \in Handlers :
            /\ obs[p].choose <= 1
            /\ obs[p].choose = 1 => SelectionCallDue(p)
            /\ PastDecide(p) =>
                    (SelectionCallDue(p) <=> (pc[p] = "choose" \/ obs[p].choose = 1)))
    /\ [][\A p \in Handlers :
            /\ pc[p] = "choose" => obs'[p].choose = 1
            /\ obs'[p].choose = obs[p].choose + 1 => pc[p] = "choose"]_vars

\* a text longer than twenty characters with a marker word and no position
\* in it went to the selection call
C23_Witness ==
    \E p \in Handlers :
        /\ obs[p].choose = 1 /\ pc[p] = "parse"
        /\ loc[p].text = LongQuery \o <<" ">> \o W.raqam
        /\ Len(PresentedList(obs[p].before)) = 3


-----------------------------------------------------------------------------
\* p's turn loaded a prior presentation and its message is neither a
\* positional reference nor selection-like
UnrelatedQuery(p) ==
    LET prior == PresentedList(obs[p].before)
    IN  /\ prior # <<>>
        /\ SelectionIndex(loc[p].text, Len(prior)) = NoIndex
        /\ ~SelectionLike(loc[p].text)

\* C24: in a turn with a prior presentation whose message is neither a
\* positional reference nor selection-like, the state stored when the parse
\* call is issued is the loaded state without last_presented_candidates and
\* last_presented_candidate_ids, and the turn makes no selection call and no
\* product-context lookup.
C24_UnrelatedQueryClears ==
    /\ [](\A p \in Handlers :
            UnrelatedQuery(p) =>
                /\ obs[p].choose = 0 /\ obs[p].context = 0
                /\ pc[p] = "parse" =>
                        /\ obs[p].writes = 1
                        /\ PersistedState(p) = Pop(Pop(obs[p].before, K_cands), K_ids))
    /\ [][\A p \in Handlers :
            (UnrelatedQuery(p) /\ obs'[p].parse = obs[p].parse + 1) =>
                /\ pc[p] = "parse"
                /\ ~Has(PersistedState(p), K_cands) /\ ~Has(PersistedState(p), K_ids)]_vars

\* a long free-text message after a presentation of three: both keys are
\* gone from the stored state when the parse call is about to be made
C24_Witness ==
    \E p \in Handlers :
        /\ pc[p] = "parse" /\ loc[p].text = LongQuery
        /\ Len(GetList(obs[p].before, K_ids)) = 3
        /\ Len(GetList(obs[p].before, K_cands)) = 3
        /\ ~Has(PersistedState(p), K_cands) /\ ~Has(PersistedState(p), K_ids)


-----------------------------------------------------------------------------
\* C25: a turn that resolved a candidate id and found its product context
\* makes no parse call, no catalog search, no rerank call and no second
\* answer call, whatever the grounded answer is; no turn makes more than
\* three language-model calls.  Fails when the grounded answer is the empty
\* text: `if not ai_reply` then enters the search flow, and a turn that
\* began with the selection call makes four calls.
C25_NoSearchAfterSelection ==
    \A p \in Handlers :
        /\ obs[p].ctx_found =>
                /\ obs[p].parse = 0 /\ obs[p].search = 0 /\ obs[p].rerank = 0
                /\ obs[p].answer_plain = 0 /\ obs[p].answer_ctx <= 1
        /\ LlmCalls(p) <= 3


-----------------------------------------------------------------------------
\* p's turn resolved a candidate id and its context lookup returned nothing
\* or raised
ContextMissing(p) == obs[p].context >= 1 /\ ~obs[p].ctx_found

\* C26: when a candidate id is resolved and get_product_context returns
\* nothing or raises, the turn makes no parse, search, rerank or answer call,
\* its reply is the fixed re-prompt, the stored state stays as it was loaded
\* (presented list and selected_product_id included), and the handler
\* returns ok with the re-prompt sent once unless a later store or send call
\* raises.
C26_MissingContextReprompts ==
    \A p \in Handlers :
        ContextMissing(p) =>
            /\ pc[p] \in {"send", "append_out", "done"}
            /\ obs[p].parse = 0 /\ obs[p].search = 0 /\ obs[p].rerank = 0
            /\ obs[p].answer_plain = 0 /\ obs[p].answer_ctx = 0
            /\ obs[p].writes = 0
            /\ loc[p].ai_reply = RePrompt
            /\ PersistedState(p) = obs[p].before
            /\ \A i \in 1..Len(outbox[p]) : outbox[p][i] = Sent(loc[p].frm, RePrompt)
            /\ (pc[p] = "done" /\ ~obs[p].raised) =>
                    /\ loc[p].status = "ok"
                    /\ outbox[p] = <<Sent(loc[p].frm, RePrompt)>>

\* the selection call named an id that is no product; the user got the
\* re-prompt and the presented list is still stored
C26_Witness ==
    \E p \in Handlers :
        /\ pc[p] = "done" /\ loc[p].status = "ok" /\ ContextMissing(p)
        /\ obs[p].choose = 1 /\ loc[p].selected_id = 99
        /\ outbox[p] = <<Sent(U1, RePrompt)>>
        /\ Len(GetList(PersistedState(p), K_ids)) = 3


-----------------------------------------------------------------------------
\* C27: in the search flow one parse call comes first; with a non-empty
\* keyword list the term search is called with limit 50 and the substring
\* search is not called, otherwise the substring search is called on the
\* message with limit 10; with no rows one plain answer call and no rerank
\* call is made, with at least one row one rerank call and no plain answer
\* call.
C27_SearchFlowOrder ==
    \A p \in Handlers :
        /\ obs[p].parse <= 1 /\ obs[p].search <= 1
        /\ obs[p].rerank <= 1 /\ obs[p].answer_plain <= 1
        /\ (pc[p] = "search" \/ obs[p].search + obs[p].rerank + obs[p].answer_plain > 0)
                => obs[p].parse = 1
        /\ (obs[p].parse = 1 /\ pc[p] \notin {"rl_send", "rl_append", "done"})
                => (pc[p] = "search" \/ obs[p].search = 1)
        /\ Len(obs[p].searches) = obs[p].search
        /\ obs[p].search = 1 =>
                /\ obs[p].searches[1] =
                        (IF loc[p].keywords # <<>>
                         THEN [fn |-> "search_products_by_terms", limit |-> 50]
                         ELSE [fn |-> "search_products", limit |-> 10])
                /\ loc[p].cands # <<>> =>
                        loc[p].cands =
                            (IF loc[p].keywords # <<>>
                             THEN SearchProductsByTerms(loc[p].keywords, 50)
                             ELSE SearchProducts(loc[p].text, 10))
                /\ IF loc[p].cands = <<>>
                   THEN /\ obs[p].rerank = 0
                        /\ pc[p] = "answer_plain" \/ obs[p].answer_plain = 1
                   ELSE /\ obs[p].answer_plain = 0
                        /\ pc[p] = "rerank" \/ obs[p].rerank = 1
        /\ obs[p].rerank + obs[p].answer_plain > 0 => obs[p].search = 1

\* the parse call gave a keyword no product has: the term search ran, found
\* nothing, and the plain answer was sent
C27_Witness ==
    \E p \in Handlers :
        /\ pc[p] = "done" /\ loc[p].status = "ok"
        /\ loc[p].keywords = <<T.zz>> /\ loc[p].text = LongQuery
        /\ obs[p].searches = <<[fn |-> "search_products_by_terms", limit |-> 50]>>
        /\ obs[p].parse = 1 /\ obs[p].answer_plain = 1 /\ obs[p].rerank = 0
        /\ Len(outbox[p]) = 1


-----------------------------------------------------------------------------
\* the first min(3, n) rows of the search result of p's turn
FirstRows(p) ==
    SubSeq(loc[p].cands, 1, IF Len(loc[p].cands) < 3 THEN Len(loc[p].cands) ELSE 3)

\* line i of a numbered list: the number, a bracket and the row's name
NumberedName(i, row) ==
    IntToText(i) \o <<")", " ">>
    \o (IF row.display_name # NoneVal THEN row.display_name ELSE row.slug)

\* C28: when the rerank result has an empty reply text, the reply of the
\* turn is the numbered list of the first min(3, n) rows of the search result
\* in search order, and when it is sent the stored
\* last_presented_candidate_ids are the ids of those rows in that order,
\* whatever ids the model claimed, and last_presented_candidates has the
\* same ids at the same positions: number i of the reply is element i of
\* the stored list.
C28_FallbackListAligned ==
    \A p \in Handlers :
        obs[p].rr_empty =>
            /\ pc[p] \in {"persist_safe", "persist_top", "send", "append_out", "done"}
            /\ obs[p].answer_plain = 0
            /\ (pc[p] \in {"send", "append_out"} \/ outbox[p] # <<>>) =>
                    LET top == FirstRows(p)
                        ids == GetList(PersistedState(p), K_ids)
                        cands == GetList(PersistedState(p), K_cands)
                    IN  /\ loc[p].ai_reply = FallbackReply(top)
                        /\ \A i \in 1..Len(outbox[p]) :
                                outbox[p][i] = Sent(loc[p].frm, FallbackReply(top))
                        /\ Len(top) >= 1
                        /\ Len(ids) = Len(top) /\ Len(cands) = Len(top)
                        /\ \A i \in 1..Len(top) :
                                /\ ids[i] = top[i].id
                                /\ cands[i].id = top[i].id
                                /\ Contains(loc[p].ai_reply, NumberedName(i, top[i]))
                                /\ ~Contains(loc[p].ai_reply, IntToText(Len(top) + 1) \o <<")">>)

\* the model named one id and gave no reply text: the list of the two rows
\* found was sent and their ids stored, in search order
C28_Witness ==
    \E p \in Handlers :
        /\ pc[p] = "done" /\ loc[p].status = "ok" /\ obs[p].rr_empty
        /\ obs[p].claimed = <<JInt(10)>>
        /\ Len(loc[p].cands) = 2
        /\ GetList(PersistedState(p), K_ids) = <<loc[p].cands[1].id, loc[p].cands[2].id>>
        /\ outbox[p] = <<Sent(U1, FallbackReply(loc[p].cands))>>


-----------------------------------------------------------------------------
\* C29: when a search-flow turn sends a reply built from a non-empty search
\* result, the presented keys were stored in that turn and every stored id is
\* the id of a row of that turn's search result.  Fails when the model gives
\* a reply text with no presented ids, or only ids that are not in the
\* result: nothing is stored, and a list presented in an earlier turn stays.
C29_PresentedIsThisTurns ==
    \A p \in Handlers :
        (obs[p].rerank = 1 /\ obs[p].last = "ok" /\ outbox[p] # <<>>) =>
            /\ obs[p].wrote_search
            /\ GetList(PersistedState(p), K_ids) # <<>>
            /\ \A i \in 1..Len(GetList(PersistedState(p), K_ids)) :
                    GetList(PersistedState(p), K_ids)[i] \in CandIds(loc[p].cands)


-----------------------------------------------------------------------------
\* C30: a collaborator lookup that raises does not end the turn: not the
\* catalog search of the search flow, and not the store reads
\* get_conversation_state and get_recent_messages.  Fails for the store
\* reads: nothing catches what they raise but the handler's last except,
\* which returns status error with nothing sent.
C30_LookupFailureContinues ==
    \A p \in Handlers :
        obs[p].failed_at \notin {"load_state", "decide", "search"}

-----------------------------------------------------------------------------
\* a step of p in which a store or transport call raised outside the
\* rate-limit branch, or a parse, rerank or answer call raised an error that
\* is not a rate limit
RaisesUncaught(p) ==
    \/ /\ ~obs[p].raised /\ obs'[p].raised
       /\ pc[p] \notin {"rl_send", "rl_append"}
    \/ /\ pc[p] \in {"parse", "rerank", "answer_ctx", "answer_plain"}
       /\ LlmCalls(p)' = LlmCalls(p) + 1
       /\ obs'[p].last = "error"

\* a step of p that ends its turn with status error
ReturnsError(p) ==
    pc[p] # "done" /\ pc'[p] = "done" /\ loc'[p].status = "error"

\* C31, as the code has it: an exception other than a rate-limit error that
\* is raised outside the handler's local try blocks (the selection call, the
\* catalog lookups, the apology of the rate-limit branch) ends the turn with
\* status error; the step that returns the error leaves the stored
\* conversations and rows as they are, takes back nothing that was sent (a
\* failing send may have gone out) and sends no apology; the handler is then
\* free for the next delivery, with none of the turn's locals kept.
C31_UncaughtAborts ==
    /\ [][\A p \in Handlers : RaisesUncaught(p) => ReturnsError(p)]_vars
    /\ [][\A p \in Handlers :
            ReturnsError(p) =>
                /\ convs' = convs /\ messages' = messages
                /\ obs'[p].rows = obs[p].rows
                /\ \/ outbox'[p] = outbox[p]
                   \/ /\ pc[p] \in {"send", "nt_send"}
                      /\ outbox'[p] = Append(outbox[p], Sent(loc[p].frm, loc[p].ai_reply))
                /\ \A i \in 1..Len(outbox'[p]) : outbox'[p][i].text \notin Apologies]_vars
    /\ [][\A p \in Handlers :
            (pc[p] = "done" /\ pc'[p] # "done") =>
                /\ pc'[p] = "idle" /\ loc'[p] = InitLoc
                /\ convs' = convs /\ messages' = messages]_vars

\* a message is answered in the usual way after the turn of an earlier one
\* was aborted
C31_Witness ==
    \E p \in Handlers :
        /\ unanswered # {}
        /\ pc[p] = "done" /\ loc[p].status = "ok" /\ ~obs[p].raised
        /\ Len(OutboundRows(p)) = 1
        /\ outbox[p] = <<Sent(U1, OutboundRows(p)[1].text)>>
        /\ outbox[p][1].text \notin Apologies

\* C31 as stated: whatever call of a turn raised an error that is not a rate
\* limit, the turn ends there with status error.
C31_AnyExceptionAborts ==
    \A p \in Handlers :
        (obs[p].raised \/ obs[p].last = "error")
            => pc[p] = "done" /\ loc[p].status = "error"

-----------------------------------------------------------------------------
\* the steps at which a handler calls set_conversation_state
WriteSteps == {"clear", "persist_selection", "persist_safe", "persist_top"}

\* C32: with two turns of one conversation running concurrently, each turn
\* loads the blob once, at its start, and every set_conversation_state
\* stores the turn's own whole copy over whatever is there: the stored blob
\* changes only at such a write, is afterwards exactly the writer's copy
\* (nothing of the blob it replaces is merged in, nothing is compared), and
\* the write ends no turn with an error.  So the blob left when both turns
\* are over is that of the last write, and keys the other turn wrote are lost.
C32_LastWriteWins ==
    /\ [][\A i \in 1..Len(convs) :
            convs'[i].state # convs[i].state =>
                \E p \in Handlers :
                    /\ pc[p] \in WriteSteps /\ loc[p].conv = i
                    /\ pc'[p] # pc[p] /\ pc'[p] # "done"
                    /\ loc'[p].status = "none"
                    /\ convs'[i].state = loc[p].state
                    /\ \A q \in Handlers \ {p} : pc'[q] = pc[q] /\ loc'[q] = loc[q]]_vars
    /\ [][\A p \in Handlers :
            (pc[p] \in WriteSteps /\ pc'[p] # pc[p]) =>
                convs'[loc[p].conv].state = loc[p].state]_vars
    /\ [][\A p \in Handlers :
            loc'[p].state # loc[p].state =>
                \/ pc[p] = "load_state" /\ loc'[p].state = convs[loc[p].conv].state
                \/ pc[p] \in {"decide", "context", "rerank", "persist_safe", "done"}]_vars

\* both turns wrote the blob and ended with status ok; the first stored
\* selected_product_id, the other wrote later from a copy loaded before
\* that, and the stored blob has no selected_product_id
C32_Witness ==
    /\ \A p \in Handlers :
            /\ pc[p] = "done" /\ loc[p].status = "ok" /\ loc[p].conv = 1
            /\ obs[p].writes > 0
    /\ Has(loc["h1"].state, K_selected)
    /\ ~Has(loc["h2"].state, K_selected)
    /\ ~Has(convs[1].state, K_selected)
    /\ convs[1].state = loc["h2"].state

-----------------------------------------------------------------------------
\* the ids presented in the blob stored for conversation i
StoredIds(cs, i) == GetList(cs[i].state, K_ids)

\* C33: every blob a handler stores has at most 10 entries in
\* last_presented_candidate_ids, at most 5 when it is stored after the
\* validation of a rerank answer and at most 3 when it is stored with the
\* fallback list; and at most 10 presented candidates are passed to the
\* selection call.
C33_PresentedBounded ==
    /\ [][\A p \in Handlers :
            obs'[p].writes = obs[p].writes + 1 =>
                /\ Len(StoredIds(convs', loc[p].conv)) <= 10
                /\ pc[p] = "persist_safe" => Len(StoredIds(convs', loc[p].conv)) <= 5
                /\ pc[p] = "persist_top" => Len(StoredIds(convs', loc[p].conv)) <= 3]_vars
    /\ [](\A p \in Handlers : obs[p].passed <= 10)

\* eleven candidates were presented and ten of them passed to the selection
\* call, which chose none; the rerank answer then named six ids of
\* candidates, and five are stored
C33_Witness ==
    \E p \in Handlers :
        /\ pc[p] = "send" /\ obs[p].wrote_search
        /\ Len(loc[p].presented) = 11 /\ obs[p].choose = 1 /\ obs[p].passed = 10
        /\ Len(obs[p].claimed) = 6
        /\ \A i \in 1..6 : IntOf(obs[p].claimed[i]) \in CandIds(loc[p].cands)
        /\ Len(StoredIds(convs, loc[p].conv)) = 5
        /\ Len(loc[p].cands) = 4

-----------------------------------------------------------------------------
\* C34: for every text and every max_n, _selection_index returns None or an
\* index k with 1 <= k <= max_n, so that presented_list[k - 1] is an entry of
\* a list of max_n candidates.  Fails for a text of digit-like characters
\* that int() does not take (the superscript two): isdigit() accepts it and
\* int() raises ValueError, so the function returns nothing at all.
C34_IndexWithinList ==
    (probe.op = "_selection_index" /\ probe.returned) =>
        \/ probe.result = NoIndex
        \/ probe.result \in 1..probe.max_n

-----------------------------------------------------------------------------
\* C35: when the state a turn works from (it has not written yet) holds a
\* selected product and no last_presented_candidate_ids (the turn before
\* resolved a selection and found its context), the turn is handled as one with no prior
\* presentation: its presented list is empty, nothing is matched against an
\* old list, no selection call and no context lookup is made, and the turn
\* goes from the selection step straight to the search flow.  Fails: the
\* resolved selection removes only the ids, the candidates stay in the
\* stored state and the next turn builds its presented list from them.
C35_NextTurnHasNoPresentation ==
    \A p \in Handlers :
        (/\ PastDecide(p)
         /\ obs[p].writes = 0
         /\ Has(PersistedState(p), K_selected)
         /\ ~Has(PersistedState(p), K_ids))
            => /\ loc[p].presented = <<>>
               /\ loc[p].selected_id = 0
               /\ obs[p].choose = 0
               /\ obs[p].context = 0
               /\ pc[p] \notin {"choose", "clear", "context", "persist_selection",
                                "answer_ctx"}

-----------------------------------------------------------------------------
\* C36: when a delivery has completed without a store or send failure, the
\* outbound rows the turn appended match the messages it sent one to one:
\* as many rows as sends, the i-th row an assistant row of the turn's
\* conversation with the text of the i-th send.  Fails on an empty reply
\* text: it is sent, append_message raises ValueError on it, and the turn
\* ends with one send and no outbound row.
C36_EverySendRecorded ==
    \A p \in Handlers :
        (pc[p] = "done" /\ ~obs[p].raised) =>
            /\ Len(OutboundRows(p)) = Len(outbox[p])
            /\ \A i \in 1..Len(outbox[p]) :
                    /\ OutboundRows(p)[i].text = outbox[p][i].text
                    /\ OutboundRows(p)[i].role = "assistant"
                    /\ OutboundRows(p)[i].conversation_id = loc[p].conv

-----------------------------------------------------------------------------
\* the delivery of p's turn carries a sender and a provider id that is
\* missing or blank
BlankIdTurn(p) == HasSender(p) /\ Strip(OrElse(loc[p].wa_id, <<>>)) = <<>>

\* the inbound rows handler p appended in its turn
InboundRows(p) ==
    SelectSeq(obs[p].rows, LAMBDA r : r.direction = "inbound")

\* C37: a delivery with a sender whose provider id is missing or blank is
\* never taken for a duplicate, whatever the store holds: the duplicate check
\* neither reads the store nor fails, its only step leads to the conversation
\* lookup, and the delivery is processed as a new turn: when no store or
\* send call failed, the completed turn has appended one inbound row with
\* the id as delivered, and a turn that returned ok has sent one reply.
C37_BlankIdNeverDuplicate ==
    /\ [](\A p \in Handlers : BlankIdTurn(p) => ~obs[p].dup)
    /\ [][\A p \in Handlers :
            (BlankIdTurn(p) /\ pc[p] = "dedup" /\ pc'[p] # "dedup") =>
                /\ pc'[p] = "conv_select"
                /\ ~obs'[p].raised
                /\ loc'[p] = loc[p]]_vars
    /\ [](\A p \in Handlers :
            (BlankIdTurn(p) /\ pc[p] = "done" /\ ~obs[p].raised) =>
                /\ Len(InboundRows(p)) = 1
                /\ InboundRows(p)[1].wa_message_id = loc[p].wa_id
                /\ loc[p].status = "ok" => Len(outbox[p]) = 1)

\* the duplicate check has let through a delivery with the blank id while
\* the store already holds the inbound row of an identical delivery
\* processed before, in the same conversation
C37_Witness ==
    \E p \in Handlers :
        /\ BlankIdTurn(p) /\ loc[p].wa_id = BlankId
        /\ pc[p] = "load_state"
        /\ obs[p].rows = <<>>
        /\ \E m \in messages :
                /\ m.wa_message_id = BlankId
                /\ m.direction = "inbound"
                /\ m.conversation_id = loc[p].conv

=============================================================================
